---- MODULE Spec2Model ----
(***************************************************************************)
(* Model of the tuteliq command line client (src/src/index.ts, build       *)
(* 2.1.0).  One behaviour is a series of CLI invocations ("runs") against  *)
(* one credential file.  A run is started by one of the command actions,   *)
(* which performs the synchronous part of the handler; a handler that      *)
(* reaches its remote call suspends at the await (pc = "awaiting") until   *)
(* the remote service resolves or rejects the promise.                     *)
(***************************************************************************)
EXTENDS Integers, Sequences, FiniteSets, TLC

VARIABLES
    store,        \* contents of the Conf file: property name -> value
    pc,           \* "idle" (no run yet), "awaiting" (remote call pending), "exited"
    cmd,          \* command of the current / last run
    args,         \* its parsed arguments and the local facts they refer to
    clientKey,    \* <<k>> once getClient constructed a client with key k, else << >>
    remoteCalls,  \* remote operations invoked by the run, in order
    stdout,       \* lines printed with console.log by the run
    stderr,       \* lines printed with console.error by the run
    exitCode,     \* exit status of the run (meaningful when pc = "exited")
    outcome,      \* of the remote call: "none", "pending", "resolved", "rejected"
    response,     \* the response the remote call resolved with
    fileWritten,  \* whether the run wrote the export file
    fileContent,  \* what the run wrote to it (<< >> when it wrote nothing)
    procs,        \* concurrent invocations that write the store (SpecConc only)
    lastCred,     \* history: the last command that wrote the store
    overwrote,    \* history: what that write replaced: "nothing", "same", "other"
    effects,      \* history: what the run did, in order (config.get, JSON.parse, ...)
    installs      \* the three builds side by side (SpecBuilds only)

vars == <<store, pc, cmd, args, clientKey, remoteCalls, stdout, stderr, exitCode,
          outcome, response, fileWritten, fileContent, procs, lastCred, overwrote,
          effects, installs>>

----------------------------------------------------------------------------
(* Bounds *)

MaxKeyLen == 13       \* API keys of length 0..MaxKeyLen
MaxKeyVariant == 1    \* distinct keys per length: variants 0..MaxKeyVariant
MaxMissing == 1       \* fields a remote response may lack at once
Decimals == 3         \* decimal places of the scores of a response

----------------------------------------------------------------------------
(* Strings are sequences of one-character strings.                         *)

Min(a, b) == IF a < b THEN a ELSE b
Max(a, b) == IF a > b THEN a ELSE b

Chars == <<"a", "b", "c", "1", "2", "3", "x", "y", "z", "7", "8", "9", "k", "q">>

Key(n, o) == [i \in 1..n |-> Chars[((i + o - 1) % Len(Chars)) + 1]]

Keys == {Key(n, o) : n \in 0..MaxKeyLen, o \in 0..MaxKeyVariant}

Abc123 == <<"a", "b", "c", "1", "2", "3">>

\* String.prototype.slice(0, n)
SliceHead(s, n) == SubSeq(s, 1, Min(n, Len(s)))

\* slice(n) written for slice(-n)
SliceTail_Positive(s, n) == SubSeq(s, Min(n, Len(s)) + 1, Len(s))

\* String.prototype.slice(-n)
SliceTail(s, n) == SubSeq(s, Max(Len(s) - n, 0) + 1, Len(s))

Dots == <<".", ".", ".">>

\* apiKey.slice(0, 8) + '...' + apiKey.slice(-4)
Mask(k) == SliceHead(k, 8) \o Dots \o SliceTail(k, 4)

----------------------------------------------------------------------------
(* The credential store: a Conf instance, a persisted map of properties.   *)

EmptyStore == [x \in {} |-> << >>]

\* a set that does not replace an existing value
ConfSet_KeepExisting(s, name, v) ==
    [x \in (DOMAIN s) \cup {name} |-> IF x \in DOMAIN s THEN s[x] ELSE v]

ConfSet(s, name, v) == [x \in (DOMAIN s) \cup {name} |-> IF x = name THEN v ELSE s[x]]

\* a delete that removes nothing
ConfDelete_Noop(s, name) == s

ConfDelete(s, name) == [x \in (DOMAIN s) \ {name} |-> s[x]]

\* config.get(name): the value, or undefined
ConfGet(s, name) ==
    IF name \in DOMAIN s THEN [defined |-> TRUE, value |-> s[name]]
                         ELSE [defined |-> FALSE, value |-> << >>]

\* JavaScript truthiness of a string-or-undefined: undefined and '' are falsy
\* a presence test that accepts every defined value, the empty string included
Truthy_Defined(v) == v.defined

Truthy(v) == v.defined /\ v.value # << >>

----------------------------------------------------------------------------
(* Output lines.                                                           *)

Line(t, a) == [text |-> t, arg |-> a]

\* An option that was not given on the command line.
NotGiven == [defined |-> FALSE, value |-> << >>]

Given(v) == [defined |-> TRUE, value |-> v]

\* name: the command name as typed, where the model tells it from the
\* command it selects ("" otherwise); age: the value of -a/--age.
\* file: the <file> argument of voice and image, bytes: what the file holds;
\* enable, disable: the flags of webhook update.
NoArgs == [key |-> << >>, confirm |-> FALSE, jsonOk |-> TRUE, fileOk |-> TRUE,
           details |-> FALSE, output |-> "none", name |-> "", age |-> NotGiven,
           file |-> << >>, bytes |-> << >>, enable |-> FALSE, disable |-> FALSE]

NotLoggedIn == <<Line("Not logged in. Run: tuteliq login <api-key>", << >>)>>

\* console.error(chalk.red('Error:'), error.message)
ErrorLine(msg) == <<Line("Error:", <<msg>>)>>

----------------------------------------------------------------------------
(* Remote responses.  A response is described by the fields it lacks (a    *)
(* field is a path of property names) and by whether its lists are empty.  *)

Present(r, f) == \A n \in 1..Len(f) : SubSeq(f, 1, n) \notin r.missing

\* One console.log of a formatter: `pre` are the fields dereferenced to
\* evaluate its condition, `body` those dereferenced to build the line; a
\* dereference of an absent field throws a TypeError.
Step(label, kind, on, pre, body) ==
    [label |-> label, kind |-> kind, on |-> on, pre |-> pre, body |-> body]

S(label) == Step(label, "always", << >>, {}, {})
SN(label, body) == Step(label, "always", << >>, {}, body)
IfNonEmpty(label, on, pre, body) == Step(label, "ifNonEmpty", on, pre, body)
IfEmpty(label, on, pre) == Step(label, "ifEmpty", on, pre, {})
IfPresent(label, on, pre, body) == Step(label, "ifPresent", on, pre, body)
\* an empty list reported without the early return
EmptyReturn_NoReturn(label, on) == Step(label, "ifEmpty", on, {on}, {})

\* if (list.length === 0) { console.log(label); return; }
EmptyReturn(label, on) == Step(label, "emptyReturn", on, {on}, {})

----------------------------------------------------------------------------
(* Values of a response and their rendering.                               *)

Lower == <<"a", "b", "c", "d", "e", "f", "g", "h", "i", "j", "k", "l", "m",
           "n", "o", "p", "q", "r", "s", "t", "u", "v", "w", "x", "y", "z">>

Upper == <<"A", "B", "C", "D", "E", "F", "G", "H", "I", "J", "K", "L", "M",
           "N", "O", "P", "Q", "R", "S", "T", "U", "V", "W", "X", "Y", "Z">>

\* String.prototype.toUpperCase
ToUpperCase(s) ==
    [i \in 1..Len(s) |->
        IF \E j \in 1..26 : Lower[j] = s[i]
          THEN Upper[CHOOSE j \in 1..26 : Lower[j] = s[i]] ELSE s[i]]

LowLevel == <<"l", "o", "w">>
MediumLevel == <<"m", "e", "d", "i", "u", "m">>
HighLevel == <<"h", "i", "g", "h">>
CriticalLevel == <<"c", "r", "i", "t", "i", "c", "a", "l">>
NoneLevel == <<"n", "o", "n", "e">>
SafeLevel == <<"s", "a", "f", "e">>
SevereLevel == <<"s", "e", "v", "e", "r", "e">>
ConstructorName == <<"c", "o", "n", "s", "t", "r", "u", "c", "t", "o", "r">>
ProtoName == <<"_", "_", "p", "r", "o", "t", "o", "_", "_">>

\* The strings a severity or risk field is drawn from: the documented
\* levels, an undocumented one, a level in capitals, and two names that
\* every object inherits from Object.prototype.
LevelValues ==
    {LowLevel, MediumLevel, HighLevel, CriticalLevel, NoneLevel, SafeLevel,
     SevereLevel, ToUpperCase(HighLevel), ConstructorName, ProtoName}

\* colors of formatSeverity
SeverityColors ==
    [k \in {LowLevel, MediumLevel, HighLevel, CriticalLevel} |->
        CASE k = LowLevel      -> "yellow"
          [] k = MediumLevel   -> "hex #FFA500"
          [] k = HighLevel     -> "red"
          [] k = CriticalLevel -> "bgRed.white"]

\* colors of formatRisk
RiskColors ==
    [k \in {NoneLevel, SafeLevel, LowLevel, MediumLevel, HighLevel, CriticalLevel} |->
        CASE k = NoneLevel     -> "green"
          [] k = SafeLevel     -> "green"
          [] k = LowLevel      -> "yellow"
          [] k = MediumLevel   -> "hex #FFA500"
          [] k = HighLevel     -> "red"
          [] k = CriticalLevel -> "bgRed.white"]

\* colors[key]: an own property of the literal, else what the literal
\* inherits from Object.prototype (the accessor __proto__ yields the
\* prototype object, constructor yields the function Object), else undefined.
Lookup(colors, key) ==
    IF key \in DOMAIN colors THEN [kind |-> "style", style |-> colors[key]]
    ELSE IF key = ProtoName THEN [kind |-> "object", style |-> ""]
    ELSE IF key = ConstructorName THEN [kind |-> "Object", style |-> ""]
    ELSE [kind |-> "undefined", style |-> ""]

Throws == [thrown |-> TRUE, arg |-> << >>]

Returns(a) == [thrown |-> FALSE, arg |-> a]

\* (colors[v] || chalk.white)(v.toUpperCase()): a value that is not callable
\* throws a TypeError; Object(s) returns s without any style.
Styled(colors, v) ==
    LET f == Lookup(colors, v) IN
    CASE f.kind = "style"     -> Returns(<<f.style>> \o ToUpperCase(v))
      [] f.kind = "undefined" -> Returns(<<"white">> \o ToUpperCase(v))
      [] f.kind = "Object"    -> Returns(<<"unstyled">> \o ToUpperCase(v))
      [] f.kind = "object"    -> Throws

formatSeverity(severity) == Styled(SeverityColors, severity)

formatRisk(risk) == Styled(RiskColors, risk)

\* Array.prototype.join(', ')
RECURSIVE Join(_)
Join(items) ==
    IF items = << >> THEN << >>
    ELSE IF Len(items) = 1 THEN items
    ELSE <<items[1], ", ">> \o Join(Tail(items))

\* The list-valued fields of response r that are present.
Items(r) == IF r.emptyLists THEN << >> ELSE r.items

\* Numbers.  The response gives a confidence or risk as a decimal numeral
\* d / Scale; JavaScript holds it as the nearest IEEE-754 double, here
\* [zero, mant, exp] with mant the 53 bits of the significand, most
\* significant first, and value mant * 2^(exp - 52).
Scale == 10 ^ Decimals

Scores == 0..Scale

Pow2(n) == 2 ^ n

Zeros(n) == [i \in 1..n |-> 0]

Front(s) == SubSeq(s, 1, Len(s) - 1)

\* The w bits of n, for 0 <= n < 2^w.
Bits(n, w) == [i \in 1..w |-> (n \div Pow2(w - i)) % 2]

\* The value of a bit string.
RECURSIVE BitsValue(_)
BitsValue(b) == IF b = << >> THEN 0 ELSE 2 * BitsValue(Front(b)) + b[Len(b)]

\* A bit string plus one.
Increment(b) ==
    IF \A i \in 1..Len(b) : b[i] = 1 THEN <<1>> \o Zeros(Len(b))
    ELSE [i \in 1..Len(b) |->
            IF \A j \in (i + 1)..Len(b) : b[j] = 1 THEN 1 - b[i] ELSE b[i]]

\* The double nearest to bits * 2^(exp - (Len(bits) - 1)), for a bit string
\* of 53 bits or more that starts with 1 (sticky: the value has something
\* non-zero beyond the string): round to nearest, ties to even.
Round53(bits, sticky, exp) ==
    LET kept == SubSeq(bits, 1, 53)
        rest == SubSeq(bits, 54, Len(bits))
        half == rest # << >> /\ rest[1] = 1
        more == sticky \/ \E i \in 2..Len(rest) : rest[i] = 1
        up   == half /\ (more \/ kept[53] = 1)
        sum  == IF up THEN Increment(kept) ELSE kept
    IN IF Len(sum) = 54
         THEN [zero |-> FALSE, mant |-> SubSeq(sum, 1, 53), exp |-> exp + 1]
         ELSE [zero |-> FALSE, mant |-> sum, exp |-> exp]

\* 2^i modulo m, for i < 60 and m * m < 2^31.
PowMod2(i, m) ==
    LET p == Pow2(15) % m
        q == CASE i \div 15 = 0 -> 1 % m
               [] i \div 15 = 1 -> p
               [] i \div 15 = 2 -> (p * p) % m
               [] i \div 15 = 3 -> (((p * p) % m) * p) % m
    IN (q * (Pow2(i % 15) % m)) % m

\* The bit of weight 2^-i in the binary expansion of num / den.
QuotientBit(num, den, i) ==
    IF ((num % (2 * den)) * PowMod2(i, 2 * den)) % (2 * den) >= den THEN 1 ELSE 0

\* The least k with d * 2^k >= den.
RECURSIVE Shift(_, _, _)
Shift(d, den, k) == IF d * Pow2(k) >= den THEN k ELSE Shift(d, den, k + 1)

\* The double that the numeral d / den denotes (0 <= d <= den).
ToDouble(d, den) ==
    IF d = 0 THEN [zero |-> TRUE, mant |-> Zeros(53), exp |-> 0]
    ELSE LET k == Shift(d, den, 0)
             num == d * Pow2(k)
             bits == [i \in 1..54 |-> QuotientBit(num, den, i - 1)]
             sticky == ((num % den) * PowMod2(53, den)) % den # 0
         IN Round53(bits, sticky, 0 - k)

\* x * 100 in double arithmetic: the exact product, computed on the
\* significand in three parts of 17, 18 and 18 bits, then rounded.
Times100(x) ==
    IF x.zero THEN x
    ELSE LET p3 == BitsValue(SubSeq(x.mant, 36, 53)) * 100
             p2 == BitsValue(SubSeq(x.mant, 18, 35)) * 100 + p3 \div Pow2(18)
             p1 == BitsValue(SubSeq(x.mant, 1, 17)) * 100 + p2 \div Pow2(18)
             high == Bits(p1, 24)
             s == (IF high[1] = 0 THEN Tail(high) ELSE high)
                    \o Bits(p2 % Pow2(18), 18) \o Bits(p3 % Pow2(18), 18)
         IN Round53(s, FALSE, x.exp + (Len(s) - 53))

\* a toFixed(0) that truncates
ToFixed0_Truncate(x) ==
    IF x.zero \/ x.exp < 0 THEN 0 ELSE BitsValue(SubSeq(x.mant, 1, x.exp + 1))

\* x.toFixed(0) for 0 <= x < 2^31: the integer n nearest to x, the larger
\* one when two are equally near.
ToFixed0(x) ==
    IF x.zero \/ x.exp < -1 THEN 0
    ELSE IF x.exp = -1 THEN 1
    ELSE BitsValue(SubSeq(x.mant, 1, x.exp + 1)) + x.mant[x.exp + 2]

\* (r * 100).toFixed(0) + '%' for r = d / Scale
Percent(d) == <<ToString(ToFixed0(Times100(ToDouble(d, Scale)))), "%">>

\* JSON values: a leaf holds its text, an array or object its elements.
JString(t) == [type |-> "string", text |-> t, kids |-> << >>]

JLiteral(t) == [type |-> "literal", text |-> t, kids |-> << >>]

JArray(elems) ==
    [type |-> "array", text |-> "",
     kids |-> [i \in 1..Len(elems) |-> [key |-> "", value |-> elems[i]]]]

JObject(members) == [type |-> "object", text |-> "", kids |-> members]

Member(k, v) == [key |-> k, value |-> v]

Indent(depth) == [i \in 1..depth |-> "  "]

\* JSON.stringify(value, null, 2): the text as a sequence of tokens
RECURSIVE Stringify(_, _)
RECURSIVE StringifyKids(_, _, _)
Stringify(v, depth) ==
    CASE v.type = "string"  -> <<"\"", v.text, "\"">>
      [] v.type = "literal" -> <<v.text>>
      [] v.kids = << >>     -> <<IF v.type = "array" THEN "[]" ELSE "{}">>
      [] OTHER ->
            <<IF v.type = "array" THEN "[" ELSE "{">>
               \o StringifyKids(v, 1, depth + 1)
               \o <<"\n">> \o Indent(depth)
               \o <<IF v.type = "array" THEN "]" ELSE "}">>

StringifyKids(v, i, depth) ==
    IF i > Len(v.kids) THEN << >>
    ELSE <<"\n">> \o Indent(depth)
           \o (IF v.type = "object" THEN <<"\"", v.kids[i].key, "\"", ": ">> ELSE << >>)
           \o Stringify(v.kids[i].value, depth)
           \o (IF i < Len(v.kids) THEN <<",">> ELSE << >>)
           \o StringifyKids(v, i + 1, depth)

\* a test of the flag that takes an absent flag for a detection
Select_NotFalse(flag, positive, negative) == IF flag # "false" THEN positive ELSE negative

\* flag ? positive : negative, for a flag that is true, false or absent
Select(flag, positive, negative) == IF flag = "true" THEN positive ELSE negative

\* The text of the console.log labelled `label` for response r.
Render(label, r) ==
    CASE label \in {"Severity:", "Visual Sev.:", "breach rows"} -> formatSeverity(r.level)
      [] label = "Risk Level:" -> formatRisk(r.level)
      [] label \in {"Types:", "Categories:", "Affected Users:", "Data Categories:",
                    "webhook rows"} -> Returns(Join(Items(r)))
      [] label \in {"Dominant:", "Emotions:"} -> Returns(<<"cyan">> \o Join(Items(r)))
      [] label = "flag bullets" -> Returns(Items(r))
      [] label \in {"Confidence:", "Risk Score:"} ->
            Returns(IF r.score.defined THEN <<"cyan">> \o Percent(r.score.value)
                                       ELSE <<"cyan">>)
      [] label = "banner: bullying" ->
            Returns(Select(r.flag, <<"red.bold", "BULLYING DETECTED">>,
                                   <<"green.bold", "No bullying detected">>))
      [] label = "banner: unsafe" ->
            Returns(Select(r.flag, <<"red.bold", "UNSAFE CONTENT DETECTED">>,
                                   <<"green.bold", "Content is safe">>))
      [] label \in {"Bullying:", "Unsafe:"} ->
            Returns(Select(r.flag, <<"red", "DETECTED">>, <<"green", "Clear">>))
      [] label = "banner: grooming" ->
            Returns(IF Present(r, <<"grooming_risk">>) /\ r.level = NoneLevel
                      THEN <<"green.bold", "No grooming detected">>
                      ELSE <<"red.bold", "GROOMING RISK DETECTED">>)
      [] label = "banner: analyze" ->
            Returns(IF Present(r, <<"risk_level">>) /\ r.level = SafeLevel
                      THEN <<"green.bold", "Content appears safe">>
                      ELSE <<"red.bold", "SAFETY CONCERNS DETECTED">>)
      [] label = "Grooming:" ->
            Returns(IF r.level # NoneLevel THEN <<"red">> \o ToUpperCase(r.level)
                                           ELSE <<"green", "Clear">>)
      [] OTHER -> Returns(<< >>)

Cond(s, r) ==
    CASE s.kind = "always"     -> TRUE
      [] s.kind = "ifPresent"  -> Present(r, s.on)
      [] s.kind = "ifNonEmpty" -> Present(r, s.on) /\ ~r.emptyLists
      [] s.kind = "ifEmpty"    -> Present(r, s.on) /\ r.emptyLists
      [] OTHER                 -> FALSE

RECURSIVE RunSteps(_, _, _, _)
RunSteps(steps, r, i, out) ==
    IF i > Len(steps) THEN [out |-> out, thrown |-> FALSE]
    ELSE LET s == steps[i] IN
         IF \E f \in s.pre : ~Present(r, f) THEN [out |-> out, thrown |-> TRUE]
         ELSE IF s.kind = "emptyReturn"
              THEN IF r.emptyLists
                     THEN [out |-> Append(out, Line(s.label, << >>)), thrown |-> FALSE]
                     ELSE RunSteps(steps, r, i + 1, out)
         ELSE IF ~Cond(s, r) THEN RunSteps(steps, r, i + 1, out)
         ELSE IF \E f \in s.body : ~Present(r, f) THEN [out |-> out, thrown |-> TRUE]
         ELSE LET v == Render(s.label, r) IN
              IF v.thrown THEN [out |-> out, thrown |-> TRUE]
              ELSE RunSteps(steps, r, i + 1, Append(out, Line(s.label, v.arg)))

Tail4 == <<S(""), S("Rationale:"), S("result.rationale"), S(""), S("Action:")>>

BullyingSteps ==
    <<S(""), S("banner: bullying"), S(""),
      SN("Severity:", {<<"severity">>}), S("Confidence:"), S("Risk Score:"),
      IfNonEmpty("Types:", <<"bullying_type">>, {}, {})>> \o Tail4

GroomingSteps ==
    <<S(""), S("banner: grooming"), S(""),
      SN("Risk Level:", {<<"grooming_risk">>}), S("Confidence:"), S("Risk Score:"),
      IfNonEmpty("", <<"flags">>, {}, {}),
      IfNonEmpty("Warning Flags:", <<"flags">>, {}, {}),
      IfNonEmpty("flag bullets", <<"flags">>, {}, {})>> \o Tail4

UnsafeSteps ==
    <<S(""), S("banner: unsafe"), S(""),
      SN("Severity:", {<<"severity">>}), S("Confidence:"), S("Risk Score:"),
      IfNonEmpty("Categories:", <<"categories">>, {}, {})>> \o Tail4

AnalyzeSteps ==
    <<S(""), S("banner: analyze"), S(""),
      SN("Risk Level:", {<<"risk_level">>}), S("Risk Score:"),
      S(""), S("Summary:"), S("result.summary"), S(""), S("Action:")>>

EmotionsSteps ==
    <<S(""), S("Emotion Analysis"), S(""),
      SN("Dominant:", {<<"dominant_emotions">>}), S("Trend:"),
      S(""), S("Summary:"), S("result.summary"), S(""),
      S("Recommended Follow-up:"), S("result.recommended_followup")>>

ActionPlanSteps ==
    <<S(""), S("Action Plan"), S("For: | Tone:"), S(""), S("Steps:"),
      IfNonEmpty("step lines", <<"steps">>, {<<"steps">>}, {})>>

AccountDeleteSteps ==
    <<S(""), S("Account data deleted"), S("Deleted records:")>>

ConsentRecordSteps ==
    <<S(""), S("Consent recorded"), SN("Type:", {<<"consent">>}),
      SN("Status:", {<<"consent">>}), SN("Version:", {<<"consent">>})>>

ConsentStatusSteps ==
    <<EmptyReturn("No consent records found.", <<"consents">>), S(""),
      IfNonEmpty("consent rows", <<"consents">>, {<<"consents">>}, {})>>

ConsentWithdrawSteps ==
    <<S(""), S("Consent withdrawn"), SN("Type:", {<<"consent">>})>>

AuditLogsSteps ==
    <<EmptyReturn("No audit logs found.", <<"audit_logs">>), S(""),
      IfNonEmpty("audit log rows", <<"audit_logs">>, {<<"audit_logs">>}, {})>>

BreachLogSteps ==
    <<S(""), S("Breach logged"), SN("ID:", {<<"breach">>}), SN("Title:", {<<"breach">>}),
      SN("Severity:", {<<"breach", "severity">>}), SN("Status:", {<<"breach">>}),
      SN("Deadline:", {<<"breach">>})>>

BreachListSteps ==
    <<EmptyReturn("No breaches found.", <<"breaches">>), S(""),
      IfNonEmpty("breach rows", <<"breaches">>, {<<"breaches">>},
                 {<<"breaches", "severity">>})>>

BreachGetSteps ==
    <<S(""), SN("b.title", {<<"breach">>}), S(""), SN("ID:", {<<"breach">>}),
      SN("Severity:", {<<"breach", "severity">>}), SN("Status:", {<<"breach">>}),
      SN("Notification:", {<<"breach">>}), SN("Reported By:", {<<"breach">>}),
      SN("Deadline:", {<<"breach">>}), SN("Created:", {<<"breach">>}),
      SN("Updated:", {<<"breach">>}), S(""), S("Description:"),
      SN("b.description", {<<"breach">>}), S(""),
      SN("Affected Users:", {<<"breach", "affected_user_ids">>}),
      SN("Data Categories:", {<<"breach", "data_categories">>})>>

BreachUpdateSteps ==
    <<S(""), S("Breach updated"), SN("Status:", {<<"breach">>}),
      SN("Notification:", {<<"breach">>})>>

VoiceSteps ==
    <<S(""), S("Voice Analysis"), S(""),
      SN("Severity:", {<<"overall_severity">>}), S("Risk Score:"),
      SN("Language:", {<<"transcription">>}),
      SN("Duration:", {<<"transcription", "duration">>}),
      S(""), S("Transcript:"), SN("result.transcription.text", {<<"transcription">>}),
      IfPresent("", <<"analysis", "bullying">>, {<<"analysis">>}, {}),
      IfPresent("Bullying:", <<"analysis", "bullying">>, {<<"analysis">>}, {}),
      IfPresent("Unsafe:", <<"analysis", "unsafe">>, {<<"analysis">>}, {}),
      IfPresent("Grooming:", <<"analysis", "grooming">>, {<<"analysis">>},
                {<<"analysis", "grooming", "grooming_risk">>}),
      IfPresent("Emotions:", <<"analysis", "emotions">>, {<<"analysis">>},
                {<<"analysis", "emotions", "dominant_emotions">>})>>

ImageSteps ==
    <<S(""), S("Image Analysis"), S(""),
      SN("Severity:", {<<"overall_severity">>}), S("Risk Score:"),
      S(""), S("Vision:"), SN("Description:", {<<"vision">>}),
      SN("Visual Sev.:", {<<"vision", "visual_severity">>}),
      SN("Has Text:", {<<"vision">>}), SN("Has Faces:", {<<"vision">>}),
      IfPresent("", <<"vision", "extracted_text">>, {<<"vision">>}, {}),
      IfPresent("Extracted Text:", <<"vision", "extracted_text">>, {<<"vision">>}, {}),
      IfPresent("result.vision.extracted_text", <<"vision", "extracted_text">>,
                {<<"vision">>}, {}),
      IfPresent("", <<"text_analysis", "bullying">>, {}, {}),
      IfPresent("Bullying:", <<"text_analysis", "bullying">>, {}, {}),
      IfPresent("Unsafe:", <<"text_analysis", "unsafe">>, {}, {})>>

WebhookListSteps ==
    <<EmptyReturn("No webhooks configured.", <<"webhooks">>), S(""),
      IfNonEmpty("webhook rows", <<"webhooks">>, {<<"webhooks">>},
                 {<<"webhooks", "events">>})>>

WebhookCreateSteps ==
    <<S(""), S("Webhook created"), SN("ID:", {<<"webhook">>}), SN("Name:", {<<"webhook">>}),
      S(""), S("Secret (save this - shown only once):"), S("result.secret")>>

WebhookUpdateSteps ==
    <<S(""), S("Webhook updated"), SN("Name:", {<<"webhook">>}),
      SN("Active:", {<<"webhook">>})>>

WebhookDeleteSteps == <<S("Webhook deleted")>>

WebhookTestSteps ==
    <<S(""), S("banner: webhook test"), S("Status:"), S("Latency:"),
      IfPresent("Error:", <<"error">>, {}, {})>>

WebhookRegenerateSteps ==
    <<S(""), S("Secret regenerated"), S("New Secret (save this - shown only once):"),
      S("result.secret")>>

PricingSteps ==
    <<S(""), IfNonEmpty("plan rows", <<"plans">>, {<<"plans">>}, {<<"plans", "features">>})>>

UsageMonthlySteps ==
    <<S(""), S("Plan"), S(""),
      SN("Used:", {<<"usage">>, <<"usage", "percent_used">>}),
      SN("Remaining:", {<<"usage">>}), SN("Rate Limit:", {<<"rate_limit">>}),
      SN("Period:", {<<"billing">>}), SN("Days Left:", {<<"billing">>}),
      IfPresent("", <<"recommendations", "should_upgrade">>, {}, {}),
      IfPresent("Recommendation:", <<"recommendations", "should_upgrade">>, {}, {}),
      IfPresent("Suggested:", <<"recommendations", "should_upgrade">>, {}, {})>>

UsageHistorySteps ==
    <<EmptyReturn("No usage data available.", <<"days">>), S(""),
      S("Date          Total  Success  Errors"), S("rule"),
      IfNonEmpty("day rows", <<"days">>, {<<"days">>}, {})>>

UsageByToolSteps ==
    <<S(""), S("Usage by Tool"), S(""),
      IfNonEmpty("tool rows", <<"tools">>, {<<"tools">>}, {}),
      IfEmpty("No data for this date.", <<"tools">>, {<<"tools">>})>>

----------------------------------------------------------------------------
(* The commands that call the remote service, with the remote operation    *)
(* each invokes and the formatter applied to its result.                   *)

PlainCmds ==
    {"detect-bullying", "detect-unsafe", "analyze", "emotions", "action-plan",
     "account consent-record", "account consent-status", "account consent-withdraw",
     "account audit-logs", "breach log", "breach list", "breach get", "breach update",
     "webhook list", "webhook create", "webhook update", "webhook delete",
     "webhook test", "webhook regenerate-secret",
     "usage monthly", "usage history", "usage by-tool"}

FileCmds == {"voice", "image"}

RemoteCmds ==
    PlainCmds \cup FileCmds \cup
    {"detect-grooming", "account delete", "account export", "pricing"}

LocalCmds == {"login", "logout", "whoami"}

RemoteOp(c, a) ==
    CASE c = "detect-bullying"           -> "detectBullying"
      [] c = "detect-grooming"           -> "detectGrooming"
      [] c = "detect-unsafe"             -> "detectUnsafe"
      [] c = "analyze"                   -> "analyze"
      [] c = "emotions"                  -> "analyzeEmotions"
      [] c = "action-plan"               -> "getActionPlan"
      [] c = "account delete"            -> "deleteAccountData"
      [] c = "account export"            -> "exportAccountData"
      [] c = "account consent-record"    -> "recordConsent"
      [] c = "account consent-status"    -> "getConsentStatus"
      [] c = "account consent-withdraw"  -> "withdrawConsent"
      [] c = "account audit-logs"        -> "getAuditLogs"
      [] c = "breach log"                -> "logBreach"
      [] c = "breach list"               -> "listBreaches"
      [] c = "breach get"                -> "getBreach"
      [] c = "breach update"             -> "updateBreachStatus"
      [] c = "voice"                     -> "analyzeVoice"
      [] c = "image"                     -> "analyzeImage"
      [] c = "webhook list"              -> "listWebhooks"
      [] c = "webhook create"            -> "createWebhook"
      [] c = "webhook update"            -> "updateWebhook"
      [] c = "webhook delete"            -> "deleteWebhook"
      [] c = "webhook test"              -> "testWebhook"
      [] c = "webhook regenerate-secret" -> "regenerateWebhookSecret"
      [] c = "pricing"                   -> IF a.details THEN "getPricingDetails"
                                                         ELSE "getPricing"
      [] c = "usage monthly"             -> "getUsageMonthly"
      [] c = "usage history"             -> "getUsageHistory"
      [] c = "usage by-tool"             -> "getUsageByTool"

FormatSteps(c) ==
    CASE c = "detect-bullying"           -> BullyingSteps
      [] c = "detect-grooming"           -> GroomingSteps
      [] c = "detect-unsafe"             -> UnsafeSteps
      [] c = "analyze"                   -> AnalyzeSteps
      [] c = "emotions"                  -> EmotionsSteps
      [] c = "action-plan"               -> ActionPlanSteps
      [] c = "account delete"            -> AccountDeleteSteps
      [] c = "account export"            -> << >>
      [] c = "account consent-record"    -> ConsentRecordSteps
      [] c = "account consent-status"    -> ConsentStatusSteps
      [] c = "account consent-withdraw"  -> ConsentWithdrawSteps
      [] c = "account audit-logs"        -> AuditLogsSteps
      [] c = "breach log"                -> BreachLogSteps
      [] c = "breach list"               -> BreachListSteps
      [] c = "breach get"                -> BreachGetSteps
      [] c = "breach update"             -> BreachUpdateSteps
      [] c = "voice"                     -> VoiceSteps
      [] c = "image"                     -> ImageSteps
      [] c = "webhook list"              -> WebhookListSteps
      [] c = "webhook create"            -> WebhookCreateSteps
      [] c = "webhook update"            -> WebhookUpdateSteps
      [] c = "webhook delete"            -> WebhookDeleteSteps
      [] c = "webhook test"              -> WebhookTestSteps
      [] c = "webhook regenerate-secret" -> WebhookRegenerateSteps
      [] c = "pricing"                   -> PricingSteps
      [] c = "usage monthly"             -> UsageMonthlySteps
      [] c = "usage history"             -> UsageHistorySteps
      [] c = "usage by-tool"             -> UsageByToolSteps

\* The fields of a response that the formatter of command c looks at.
Fields(c) ==
    UNION {FormatSteps(c)[i].pre \cup FormatSteps(c)[i].body \cup
           (IF FormatSteps(c)[i].on = << >> THEN {} ELSE {FormatSteps(c)[i].on})
           : i \in 1..Len(FormatSteps(c))}

\* level: the value of the severity and risk fields that are present.
\* flag: the value of the detection flags (is_bullying, unsafe): "true",
\* "false" or "absent".
\* The account data that `account export` receives.
AccountData ==
    JObject(<<Member("user", JObject(<<Member("id", JString("u1")),
                                       Member("age", JLiteral("12"))>>)),
              Member("consents", JArray(<<JString("marketing"), JLiteral("null")>>)),
              Member("logs", JArray(<< >>))>>)

Bodies ==
    {AccountData, JObject(<< >>), JArray(<<JObject(<< >>), JLiteral("true")>>),
     JObject(<<Member("a", JArray(<<JArray(<<JLiteral("1")>>)>>))>>)}

\* items: the elements of the lists that are present and not empty;
\* body: the whole result, where the command prints it as it is;
\* score: the confidence and risk, as Given(d) for d / Scale, or NotGiven
\* where the run is considered whatever they are.
FullResponse ==
    [missing |-> {}, emptyLists |-> FALSE, level |-> HighLevel, flag |-> "true",
     items |-> <<"first", "second">>, body |-> AccountData, score |-> NotGiven]

\* The responses the remote service may resolve the call of command c with.
Responses(c) ==
    {[FullResponse EXCEPT !.missing = m, !.emptyLists = e] :
        m \in {x \in SUBSET Fields(c) : Cardinality(x) <= MaxMissing}, e \in BOOLEAN}

----------------------------------------------------------------------------
(* The runs.                                                               *)

\* No concurrent invocation is under way.
NoProcs == << >>

Init ==
    /\ store = EmptyStore
    /\ pc = "idle"
    /\ cmd = "none"
    /\ args = NoArgs
    /\ clientKey = << >>
    /\ remoteCalls = << >>
    /\ stdout = << >>
    /\ stderr = << >>
    /\ exitCode = 0
    /\ outcome = "none"
    /\ response = FullResponse
    /\ fileWritten = FALSE
    /\ fileContent = << >>
    /\ procs = NoProcs
    /\ lastCred = <<"none">>
    /\ overwrote = "nothing"
    /\ effects = << >>
    /\ installs = << >>

\* A new process is started when no run is in progress.
CanStart == pc # "awaiting"

\* What a write of `v` (<<k>> for a key, << >> for a removal) replaces.
Replaced(s, v) ==
    IF "apiKey" \notin DOMAIN s THEN "nothing"
    ELSE IF v = <<s["apiKey"]>> THEN "same" ELSE "other"

\* The run performs no remote call and writes no file.
NoRemote ==
    /\ clientKey' = << >>
    /\ remoteCalls' = << >>
    /\ outcome' = "none"
    /\ response' = FullResponse
    /\ fileWritten' = FALSE
    /\ fileContent' = << >>

\* login <api-key>
Login(k) ==
    /\ CanStart
    /\ cmd' = "login"
    /\ args' = [NoArgs EXCEPT !.key = k]
    /\ store' = ConfSet(store, "apiKey", k)
    /\ stdout' = <<Line("API key saved successfully!", << >>),
                   Line("Your key is stored locally at: config.path", << >>)>>
    /\ stderr' = << >>
    /\ exitCode' = 0
    /\ pc' = "exited"
    /\ NoRemote
    /\ lastCred' = <<"login">> \o k
    /\ overwrote' = Replaced(store, <<k>>)
    /\ effects' = <<"config.set">>
    /\ UNCHANGED <<procs, installs>>

\* a logout that fails when there is no key to remove
Logout_FailsWhenAbsent ==
    /\ pc # "awaiting"
    /\ cmd' = "logout"
    /\ args' = NoArgs
    /\ store' = ConfDelete(store, "apiKey")
    /\ stdout' = IF "apiKey" \in DOMAIN store
                   THEN <<Line("Logged out successfully!", << >>)>> ELSE << >>
    /\ stderr' = IF "apiKey" \in DOMAIN store THEN << >> ELSE ErrorLine("no key")
    /\ exitCode' = IF "apiKey" \in DOMAIN store THEN 0 ELSE 1
    /\ pc' = "exited"
    /\ clientKey' = << >>
    /\ remoteCalls' = << >>
    /\ outcome' = "none"
    /\ response' = FullResponse
    /\ fileWritten' = FALSE
    /\ fileContent' = << >>
    /\ lastCred' = <<"logout">>
    /\ overwrote' = IF "apiKey" \in DOMAIN store THEN "other" ELSE "nothing"
    /\ effects' = <<"config.delete">>
    /\ UNCHANGED <<procs, installs>>

\* logout
Logout ==
    /\ CanStart
    /\ cmd' = "logout"
    /\ args' = NoArgs
    /\ store' = ConfDelete(store, "apiKey")
    /\ stdout' = <<Line("Logged out successfully!", << >>)>>
    /\ stderr' = << >>
    /\ exitCode' = 0
    /\ pc' = "exited"
    /\ NoRemote
    /\ lastCred' = <<"logout">>
    /\ overwrote' = Replaced(store, << >>)
    /\ effects' = <<"config.delete">>
    /\ UNCHANGED <<procs, installs>>

LoggedInLines(k) == <<Line("Logged in", << >>), Line("API Key: ", Mask(k))>>

LoggedOutLines == <<Line("Not logged in", << >>), Line("Run: tuteliq login <api-key>", << >>)>>

\* whoami
Whoami ==
    /\ CanStart
    /\ cmd' = "whoami"
    /\ args' = NoArgs
    /\ LET apiKey == ConfGet(store, "apiKey") IN
         stdout' = IF Truthy(apiKey) THEN LoggedInLines(apiKey.value) ELSE LoggedOutLines
    /\ stderr' = << >>
    /\ exitCode' = 0
    /\ pc' = "exited"
    /\ NoRemote
    /\ effects' = <<"config.get">>
    /\ UNCHANGED <<store, lastCred, overwrote, procs, installs>>

\* getClient without the check of the key
GetClient_NoCheck(s) == [ok |-> TRUE, key |-> ConfGet(s, "apiKey").value]

\* getClient(): the client for the stored key, or exit(1) without one
GetClient(s) ==
    LET apiKey == ConfGet(s, "apiKey") IN
    IF ~Truthy(apiKey) THEN [ok |-> FALSE, key |-> << >>]
                       ELSE [ok |-> TRUE, key |-> apiKey.value]

\* The values of a JavaScript number that the requests can hold.
Undefined == [kind |-> "undefined", value |-> 0]

NaN == [kind |-> "NaN", value |-> 0]

Number(n) == [kind |-> "number", value |-> n]

HexDigits == <<"0", "1", "2", "3", "4", "5", "6", "7", "8", "9",
               "A", "B", "C", "D", "E", "F">>

\* The value of character c as a digit of the given radix, or -1.
DigitValue(c, radix) ==
    LET u == ToUpperCase(<<c>>)[1] IN
    IF \E i \in 1..radix : HexDigits[i] = u
      THEN (CHOOSE i \in 1..radix : HexDigits[i] = u) - 1 ELSE -1

RECURSIVE TrimStart(_)
TrimStart(s) == IF s # << >> /\ s[1] = " " THEN TrimStart(Tail(s)) ELSE s

\* The longest prefix of s made of digits of the radix: its value and length.
RECURSIVE ParseDigits(_, _, _, _)
ParseDigits(s, radix, acc, n) ==
    IF s = << >> \/ DigitValue(s[1], radix) < 0 THEN [value |-> acc, count |-> n]
    ELSE ParseDigits(Tail(s), radix, acc * radix + DigitValue(s[1], radix), n + 1)

\* parseInt(s) without a radix: leading blanks, a sign, 0x for radix 16,
\* then the longest prefix of digits; NaN when there is none.
ParseInt(s) ==
    LET t == TrimStart(s)
        neg == t # << >> /\ t[1] = "-"
        u == IF t # << >> /\ t[1] \in {"+", "-"} THEN Tail(t) ELSE t
        hex == Len(u) >= 2 /\ u[1] = "0" /\ u[2] \in {"x", "X"}
        d == IF hex THEN ParseDigits(Tail(Tail(u)), 16, 0, 0) ELSE ParseDigits(u, 10, 0, 0)
    IN IF d.count = 0 THEN NaN ELSE Number(IF neg THEN 0 - d.value ELSE d.value)

\* The commands with an option -a/--age.
AgeCmds == {"detect-grooming", "action-plan", "voice"}

\* childAge: options.age ? parseInt(options.age) : undefined
ChildAge(c, a) ==
    IF c \in AgeCmds /\ Truthy(a.age) THEN ParseInt(a.age.value) ELSE Undefined

\* a file name that keeps the directories of the path
Basename_WholePath(p) == p

\* path.basename(file): the part of the path after its last separator,
\* trailing separators dropped
Basename(p) ==
    LET last == IF \E i \in 1..Len(p) : p[i] # "/"
                  THEN CHOOSE i \in 1..Len(p) :
                          p[i] # "/" /\ \A j \in (i + 1)..Len(p) : p[j] = "/"
                  ELSE 0
        first == IF \E i \in 1..last : p[i] = "/"
                   THEN 1 + CHOOSE i \in 1..last :
                                p[i] = "/" /\ \A j \in (i + 1)..last : p[j] # "/"
                   ELSE 1
    IN SubSeq(p, first, last)

\* The request handed to the client: the operation, the key the client was
\* built with, and the fields of the request that the arguments decide
\* (isActive: options.enable ? true : options.disable ? false : undefined).
Call(c, a, k) ==
    [op |-> RemoteOp(c, a), key |-> k, childAge |-> ChildAge(c, a),
     file |-> IF c \in FileCmds THEN Given(a.bytes) ELSE NotGiven,
     filename |-> IF c \in FileCmds THEN Given(Basename(a.file)) ELSE NotGiven,
     isActive |-> IF c = "webhook update" /\ a.enable THEN "true"
                  ELSE IF c = "webhook update" /\ a.disable THEN "false"
                  ELSE "undefined"]

\* What a handler does between getClient and its remote call.
LocalSteps(c) ==
    IF c = "detect-grooming" THEN <<"JSON.parse">>
    ELSE IF c \in FileCmds THEN <<"fs.readFileSync">>
    ELSE << >>

\* a try block that invokes the remote operation twice
TryCall_Twice(c, a, localOk, localError) ==
    /\ pc # "awaiting"
    /\ cmd' = c
    /\ args' = a
    /\ stdout' = << >>
    /\ response' = FullResponse
    /\ fileWritten' = FALSE
    /\ fileContent' = << >>
    /\ UNCHANGED <<store, lastCred, overwrote, procs, installs>>
    /\ LET g == GetClient(store) IN
       IF ~g.ok \/ ~localOk
         THEN /\ stderr' = IF ~g.ok THEN NotLoggedIn ELSE ErrorLine(localError)
              /\ exitCode' = 1
              /\ pc' = "exited"
              /\ clientKey' = IF g.ok THEN <<g.key>> ELSE << >>
              /\ remoteCalls' = << >>
              /\ outcome' = "none"
              /\ effects' = IF g.ok THEN <<"config.get">> \o LocalSteps(c)
                                     ELSE <<"config.get">>
         ELSE /\ stderr' = << >>
              /\ exitCode' = 0
              /\ pc' = "awaiting"
              /\ clientKey' = <<g.key>>
              /\ remoteCalls' = <<Call(c, a, g.key), Call(c, a, g.key)>>
              /\ outcome' = "pending"
              /\ effects' = <<"config.get">> \o LocalSteps(c) \o <<"call", "call">>

\* a try block that parses the arguments and reads the file before getClient
TryCall_LocalFirst(c, a, localOk, localError) ==
    /\ CanStart
    /\ cmd' = c
    /\ args' = a
    /\ stdout' = << >>
    /\ response' = FullResponse
    /\ fileWritten' = FALSE
    /\ fileContent' = << >>
    /\ UNCHANGED <<store, lastCred, overwrote, procs, installs>>
    /\ LET g == GetClient(store) IN
       IF ~localOk
         THEN /\ stderr' = ErrorLine(localError)
              /\ exitCode' = 1
              /\ pc' = "exited"
              /\ clientKey' = << >>
              /\ remoteCalls' = << >>
              /\ outcome' = "none"
              /\ effects' = LocalSteps(c)
       ELSE IF ~g.ok
         THEN /\ stderr' = NotLoggedIn
              /\ exitCode' = 1
              /\ pc' = "exited"
              /\ clientKey' = << >>
              /\ remoteCalls' = << >>
              /\ outcome' = "none"
              /\ effects' = LocalSteps(c) \o <<"config.get">>
         ELSE /\ stderr' = << >>
              /\ exitCode' = 0
              /\ pc' = "awaiting"
              /\ clientKey' = <<g.key>>
              /\ remoteCalls' = <<Call(c, a, g.key)>>
              /\ outcome' = "pending"
              /\ effects' = LocalSteps(c) \o <<"config.get", "call">>

\* The try block of a handler up to its await: getClient, then the local
\* preparation of the request (localOk: it does not throw), then the call.
TryCall(c, a, localOk, localError) ==
    /\ CanStart
    /\ cmd' = c
    /\ args' = a
    /\ stdout' = << >>
    /\ response' = FullResponse
    /\ fileWritten' = FALSE
    /\ fileContent' = << >>
    /\ UNCHANGED <<store, lastCred, overwrote, procs, installs>>
    /\ LET g == GetClient(store) IN
       IF ~g.ok
         THEN /\ stderr' = NotLoggedIn
              /\ exitCode' = 1
              /\ pc' = "exited"
              /\ clientKey' = << >>
              /\ remoteCalls' = << >>
              /\ outcome' = "none"
              /\ effects' = <<"config.get">>
       ELSE IF ~localOk
         THEN /\ stderr' = ErrorLine(localError)
              /\ exitCode' = 1
              /\ pc' = "exited"
              /\ clientKey' = <<g.key>>
              /\ remoteCalls' = << >>
              /\ outcome' = "none"
              /\ effects' = <<"config.get">> \o LocalSteps(c)
         ELSE /\ stderr' = << >>
              /\ exitCode' = 0
              /\ pc' = "awaiting"
              /\ clientKey' = <<g.key>>
              /\ remoteCalls' = <<Call(c, a, g.key)>>
              /\ outcome' = "pending"
              /\ effects' = <<"config.get">> \o LocalSteps(c) \o <<"call">>

\* The handlers whose request is built from the arguments as they are.
PlainCommand(c) == TryCall(c, NoArgs, TRUE, "")

\* detect-grooming that does not parse the messages before the call
DetectGrooming_NoParse(jsonOk) ==
    TryCall("detect-grooming", [NoArgs EXCEPT !.jsonOk = jsonOk], TRUE, "SyntaxError")

\* detect-grooming -m <json>: JSON.parse(options.messages) precedes the call
DetectGrooming(jsonOk) ==
    TryCall("detect-grooming", [NoArgs EXCEPT !.jsonOk = jsonOk], jsonOk, "SyntaxError")

SamplePath == <<"c", ".", "w">>

SampleBytes == <<"52", "49">>

\* voice <file>, image <file>: fs.readFileSync(file) precedes the call
FileCommand(c, fileOk) ==
    TryCall(c, [NoArgs EXCEPT !.fileOk = fileOk, !.file = SamplePath,
                              !.bytes = SampleBytes], fileOk, "ENOENT")


\* pricing [-d]
Pricing(details) ==
    TryCall("pricing", [NoArgs EXCEPT !.details = details], TRUE, "")

\* account export [-o file]
AccountExport(output) ==
    TryCall("account export", [NoArgs EXCEPT !.output = output], TRUE, "")

DeleteWarning ==
    <<Line("WARNING: This will permanently delete ALL your account data.", << >>),
      Line("Run with --confirm to proceed.", << >>)>>

\* account delete without the confirmation guard
AccountDelete_NoGuard(confirm) ==
    TryCall("account delete", [NoArgs EXCEPT !.confirm = confirm], TRUE, "")

\* account delete [--confirm]
AccountDelete(confirm) ==
    IF ~confirm
      THEN /\ CanStart
           /\ cmd' = "account delete"
           /\ args' = [NoArgs EXCEPT !.confirm = FALSE]
           /\ stdout' = DeleteWarning
           /\ stderr' = << >>
           /\ exitCode' = 0
           /\ pc' = "exited"
           /\ NoRemote
           /\ effects' = << >>
           /\ UNCHANGED <<store, lastCred, overwrote, procs, installs>>
      ELSE TryCall("account delete", [NoArgs EXCEPT !.confirm = TRUE], TRUE, "")

\* an export that prints the JSON as well as writing it
ExportResult_AlsoPrints(r) ==
    LET json == Stringify(r.body, 0) IN
    IF args.output = "unwritable"
      THEN /\ stdout' = << >>
           /\ stderr' = ErrorLine("EACCES")
           /\ fileWritten' = FALSE
           /\ fileContent' = << >>
           /\ exitCode' = 1
           /\ effects' = Append(effects, "fs.writeFileSync")
      ELSE /\ stdout' = IF args.output = "none"
                          THEN <<Line("JSON.stringify(result, null, 2)", json)>>
                          ELSE <<Line("JSON.stringify(result, null, 2)", json),
                                 Line("Data exported to ", <<"options.output">>)>>
           /\ stderr' = << >>
           /\ fileWritten' = (args.output = "writable")
           /\ fileContent' = IF args.output = "writable" THEN json ELSE << >>
           /\ exitCode' = 0
           /\ effects' = IF args.output = "none" THEN effects
                                                 ELSE Append(effects, "fs.writeFileSync")

\* The code after the await of `account export`, when the call resolved
\* with result r.
ExportResult(r) ==
    LET json == Stringify(r.body, 0) IN
    IF args.output = "none"
      THEN /\ stdout' = <<Line("JSON.stringify(result, null, 2)", json)>>
           /\ stderr' = << >>
           /\ fileWritten' = FALSE
           /\ fileContent' = << >>
           /\ exitCode' = 0
           /\ UNCHANGED effects
    ELSE IF args.output = "writable"
      THEN /\ stdout' = <<Line("Data exported to ", <<"options.output">>)>>
           /\ stderr' = << >>
           /\ fileWritten' = TRUE
           /\ fileContent' = json
           /\ exitCode' = 0
           /\ effects' = Append(effects, "fs.writeFileSync")
      ELSE /\ stdout' = << >>
           /\ stderr' = ErrorLine("EACCES")
           /\ fileWritten' = FALSE
           /\ fileContent' = << >>
           /\ exitCode' = 1
           /\ effects' = Append(effects, "fs.writeFileSync")

\* The code after the await of any other handler: the formatter, and the
\* catch block when the formatter throws.
FormatResult(r) ==
    LET f == RunSteps(FormatSteps(cmd), r, 1, << >>) IN
    /\ stdout' = f.out
    /\ stderr' = IF f.thrown THEN ErrorLine("TypeError") ELSE << >>
    /\ exitCode' = IF f.thrown THEN 1 ELSE 0
    /\ fileWritten' = FALSE
    /\ fileContent' = << >>
    /\ UNCHANGED effects

\* a continuation that consults the store again when the call resolves
RemoteResolve_Rechecks(r) ==
    /\ pc = "awaiting"
    /\ outcome' = "resolved"
    /\ response' = r
    /\ IF ~GetClient(store).ok
         THEN /\ stdout' = << >>
              /\ stderr' = NotLoggedIn
              /\ exitCode' = 1
              /\ fileWritten' = FALSE
              /\ fileContent' = << >>
              /\ effects' = Append(effects, "config.get")
         ELSE IF cmd = "account export" THEN ExportResult(r) ELSE FormatResult(r)
    /\ pc' = "exited"
    /\ UNCHANGED <<store, cmd, args, clientKey, remoteCalls, lastCred, overwrote, procs, installs>>

\* The remote call resolves with response r.
RemoteResolve(r) ==
    /\ pc = "awaiting"
    /\ outcome' = "resolved"
    /\ response' = r
    /\ IF cmd = "account export" THEN ExportResult(r) ELSE FormatResult(r)
    /\ pc' = "exited"
    /\ UNCHANGED <<store, cmd, args, clientKey, remoteCalls, lastCred, overwrote, procs, installs>>

\* a catch block without process.exit(1)
RemoteReject_NoExit ==
    /\ pc = "awaiting"
    /\ outcome' = "rejected"
    /\ stderr' = ErrorLine("error.message")
    /\ exitCode' = 0
    /\ pc' = "exited"
    /\ UNCHANGED <<store, cmd, args, clientKey, remoteCalls, stdout, response,
                   fileWritten, fileContent, lastCred, overwrote, procs, effects, installs>>

\* a catch block that reports the error and then idles instead of exiting
RemoteReject_NoReturn ==
    /\ pc = "awaiting"
    /\ outcome' = "rejected"
    /\ stderr' = ErrorLine("error.message")
    /\ exitCode' = 1
    /\ pc' = "hung"
    /\ UNCHANGED <<store, cmd, args, clientKey, remoteCalls, stdout, response,
                   fileWritten, fileContent, lastCred, overwrote, procs, effects, installs>>

\* a catch block that leaves the error in the export file
RemoteReject_WritesError ==
    /\ pc = "awaiting"
    /\ outcome' = "rejected"
    /\ stderr' = ErrorLine("error.message")
    /\ exitCode' = 1
    /\ pc' = "exited"
    /\ fileWritten' = (cmd = "account export" /\ args.output = "writable")
    /\ fileContent' = IF cmd = "account export" /\ args.output = "writable"
                        THEN <<"error.message">> ELSE << >>
    /\ effects' = IF cmd = "account export" /\ args.output # "none"
                    THEN Append(effects, "fs.writeFileSync") ELSE effects
    /\ UNCHANGED <<store, cmd, args, clientKey, remoteCalls, stdout, response,
                   lastCred, overwrote, procs, installs>>

\* a catch block that drops the stored key when the call is rejected
RemoteReject_ForgetsKey ==
    /\ pc = "awaiting"
    /\ outcome' = "rejected"
    /\ stderr' = ErrorLine("error.message")
    /\ exitCode' = 1
    /\ pc' = "exited"
    /\ store' = ConfDelete(store, "apiKey")
    /\ UNCHANGED <<cmd, args, clientKey, remoteCalls, stdout, response,
                   fileWritten, fileContent, lastCred, overwrote, procs, effects, installs>>

\* The remote call rejects (network error, non-2xx response): the catch block.
RemoteReject ==
    /\ pc = "awaiting"
    /\ outcome' = "rejected"
    /\ stderr' = ErrorLine("error.message")
    /\ exitCode' = 1
    /\ pc' = "exited"
    /\ UNCHANGED <<store, cmd, args, clientKey, remoteCalls, stdout, response,
                   fileWritten, fileContent, lastCred, overwrote, procs, effects, installs>>

Outputs == {"none", "writable", "unwritable"}

Next ==
    \/ \E k \in Keys : Login(k)
    \/ Logout
    \/ Whoami
    \/ \E c \in PlainCmds : PlainCommand(c)
    \/ \E j \in BOOLEAN : DetectGrooming(j)
    \/ \E c \in FileCmds, f \in BOOLEAN : FileCommand(c, f)
    \/ \E d \in BOOLEAN : Pricing(d)
    \/ \E o \in Outputs : AccountExport(o)
    \/ \E cf \in BOOLEAN : AccountDelete(cf)
    \/ (pc = "awaiting" /\ \E r \in Responses(cmd) : RemoteResolve(r))
    \/ RemoteReject

Spec == Init /\ [][Next]_vars

\* The awaited promise settles: the call returns a response or fails.
RemoteSettles ==
    \/ (pc = "awaiting" /\ \E r \in Responses(cmd) : RemoteResolve(r))
    \/ RemoteReject

\* The runs in which every remote call eventually returns or fails.  The
\* handlers set no timer and no abort signal: the await is left only by the
\* settling of the promise.
\* Termination does not depend on the text of the key: the runs below log
\* in with the empty key or with one fixed key.
NextLive ==
    \/ \E k \in {<< >>, Abc123} : Login(k)
    \/ Logout
    \/ Whoami
    \/ \E c \in PlainCmds : PlainCommand(c)
    \/ \E j \in BOOLEAN : DetectGrooming(j)
    \/ \E c \in FileCmds, f \in BOOLEAN : FileCommand(c, f)
    \/ \E d \in BOOLEAN : Pricing(d)
    \/ \E o \in Outputs : AccountExport(o)
    \/ \E cf \in BOOLEAN : AccountDelete(cf)
    \/ RemoteSettles

SpecLive == Init /\ [][NextLive]_vars /\ WF_vars(RemoteSettles)

\* The runs of a user who has logged in, with the values of the response
\* told apart.
InitDetail ==
    /\ store = ConfSet(EmptyStore, "apiKey", Abc123)
    /\ pc = "idle"
    /\ cmd = "none"
    /\ args = NoArgs
    /\ clientKey = << >>
    /\ remoteCalls = << >>
    /\ stdout = << >>
    /\ stderr = << >>
    /\ exitCode = 0
    /\ outcome = "none"
    /\ response = FullResponse
    /\ fileWritten = FALSE
    /\ fileContent = << >>
    /\ procs = NoProcs
    /\ lastCred = <<"login">> \o Abc123
    /\ overwrote = "nothing"
    /\ effects = << >>
    /\ installs = << >>

\* The runs whose request is decided by the arguments: voice and image
\* for files at several paths, webhook update with its two flags.
\* readFileSync fails on a path that names a directory.
NextRequests ==
    \/ Login(Abc123)
    \/ Logout
    \/ \E c \in FileCmds, f \in BOOLEAN :
       \E p \in {SamplePath, <<"a", "/", "c", ".", "w">>, <<"/", "a", "/", "b", "/", "c">>,
                 <<".", ".", "/", "c", ".", "w">>, <<"a", "/", "/", "c">>, <<"a", "/">>} :
       \E b \in {<< >>, SampleBytes, <<"ff", "d8", "ff">>} :
          /\ f => p[Len(p)] # "/"
          /\ TryCall(c, [NoArgs EXCEPT !.fileOk = f, !.file = p, !.bytes = b], f, "ENOENT")
    \/ \E e \in BOOLEAN, d \in BOOLEAN :
          TryCall("webhook update", [NoArgs EXCEPT !.enable = e, !.disable = d], TRUE, "")
    \/ (pc = "awaiting" /\ \E r \in Responses(cmd) : RemoteResolve(r))
    \/ RemoteReject

SpecRequests == InitDetail /\ [][NextRequests]_vars

\* The strings given as the value of -a/--age.
Ages ==
    {NotGiven} \cup
    {Given(s) : s \in {<<"1", "2">>, << >>, <<"a", "b", "c">>, <<"1", "2", "a", "b", "c">>,
                       <<" ", "7">>, <<"0", "x", "1", "f">>, <<"1", "2", ".", "7">>,
                       <<"1", "e", "3">>, <<"-", "3">>}}

\* detect-grooming, action-plan and voice with an age (their other
\* arguments well-formed)
AgeCommand(c, age) == TryCall(c, [NoArgs EXCEPT !.age = age], TRUE, "")

\* .alias(...): the second name of a command
Aliases ==
    [n \in {"bullying", "grooming", "unsafe", "plan"} |->
        CASE n = "bullying" -> "detect-bullying"
          [] n = "grooming" -> "detect-grooming"
          [] n = "unsafe"   -> "detect-unsafe"
          [] n = "plan"     -> "action-plan"]

\* The names the aliased commands can be invoked by.
Names == DOMAIN Aliases \cup {Aliases[n] : n \in DOMAIN Aliases}

\* an alias registered on the wrong command
Dispatch_Misplaced(name) ==
    IF name = "plan" THEN "analyze"
    ELSE IF name \in DOMAIN Aliases THEN Aliases[name] ELSE name

\* The command that the name typed by the user selects.
Dispatch(name) == IF name \in DOMAIN Aliases THEN Aliases[name] ELSE name

\* A command invoked by its name or by its alias, with or without an age
\* where it takes one.
NamedCommand(n, age) ==
    /\ age.defined => Dispatch(n) \in AgeCmds
    /\ TryCall(Dispatch(n), [NoArgs EXCEPT !.name = n, !.age = age], TRUE, "")

\* The responses of command c with one value varied at a time.
DetailedResponses(c) ==
    Responses(c)
      \cup {[FullResponse EXCEPT !.level = l] : l \in LevelValues}
      \cup {[r EXCEPT !.flag = f] : r \in Responses(c), f \in {"true", "false", "absent"}}
      \cup {[FullResponse EXCEPT !.items = l] : l \in {<<"only">>, <<"first", "second">>,
                                                      <<"first", "second", "third">>}}
      \cup {[FullResponse EXCEPT !.body = b] : b \in Bodies}

NextDetail ==
    \/ \E c \in PlainCmds : PlainCommand(c)
    \/ \E c \in AgeCmds, age \in Ages : AgeCommand(c, age)
    \/ \E n \in Names, age \in Ages : NamedCommand(n, age)
    \/ \E o \in Outputs : AccountExport(o)
    \/ Login(Abc123)
    \/ Logout
    \/ \E c \in FileCmds : FileCommand(c, TRUE)
    \/ (pc = "awaiting" /\ \E r \in DetailedResponses(cmd) : RemoteResolve(r))
    \/ RemoteReject

SpecDetail == InitDetail /\ [][NextDetail]_vars

\* The runs of detect-bullying by a user who has logged in, for every
\* confidence and risk between 0 and 1.
NextPercent ==
    \/ PlainCommand("detect-bullying")
    \/ (pc = "awaiting"
          /\ \E d \in Scores : RemoteResolve([FullResponse EXCEPT !.score = Given(d)]))
    \/ RemoteReject

SpecPercent == InitDetail /\ [][NextPercent]_vars

\* Two invocations that write the credential at the same time.  Each is a
\* process of its own: config.set and config.delete read the store file and
\* then replace it as a whole, and steps of the other process may fall in
\* between.  A process is [op, key, pc, snap, seq, out, exit]: snap is the
\* store it read, seq the rank of its write among the writes so far.
ConcKeys == {<< >>, Abc123, Key(8, 1)}

Writers ==
    {[op |-> "login", key |-> k, pc |-> "start", snap |-> EmptyStore, seq |-> 0,
      out |-> << >>, exit |-> 0] : k \in ConcKeys}
    \cup {[op |-> "logout", key |-> << >>, pc |-> "start", snap |-> EmptyStore,
           seq |-> 0, out |-> << >>, exit |-> 0]}

InitConc ==
    /\ store \in {EmptyStore} \cup {ConfSet(EmptyStore, "apiKey", k) : k \in ConcKeys}
    /\ procs \in [1..2 -> Writers]
    /\ pc = "idle"
    /\ cmd = "none"
    /\ args = NoArgs
    /\ clientKey = << >>
    /\ remoteCalls = << >>
    /\ stdout = << >>
    /\ stderr = << >>
    /\ exitCode = 0
    /\ outcome = "none"
    /\ response = FullResponse
    /\ fileWritten = FALSE
    /\ fileContent = << >>
    /\ lastCred = <<"none">>
    /\ overwrote = "nothing"
    /\ effects = << >>
    /\ installs = << >>

ConcUnchanged ==
    UNCHANGED <<pc, cmd, args, clientKey, remoteCalls, stdout, stderr, exitCode,
                outcome, response, fileWritten, fileContent, lastCred, overwrote,
                effects, installs>>

\* Process i reads the store file.
ConcRead(i) ==
    /\ procs[i].pc = "start"
    /\ procs' = [procs EXCEPT ![i] = [@ EXCEPT !.pc = "read", !.snap = store]]
    /\ UNCHANGED store
    /\ ConcUnchanged

\* What process p prints once its write has returned.
ConcOutput(p) ==
    IF p.op = "login"
      THEN <<Line("API key saved successfully!", << >>),
             Line("Your key is stored locally at: config.path", << >>)>>
      ELSE <<Line("Logged out successfully!", << >>)>>

\* a write that overwrites the file in place and leaves the end of a longer
\* previous content behind
ConcWrite_InPlace(i) ==
    /\ procs[i].pc = "read"
    /\ store' = IF procs[i].op = "logout" THEN ConfDelete(procs[i].snap, "apiKey")
                ELSE IF "apiKey" \in DOMAIN store /\ Len(store["apiKey"]) > Len(procs[i].key)
                  THEN ConfSet(procs[i].snap, "apiKey",
                               procs[i].key \o SubSeq(store["apiKey"], Len(procs[i].key) + 1,
                                                      Len(store["apiKey"])))
                  ELSE ConfSet(procs[i].snap, "apiKey", procs[i].key)
    /\ procs' = [procs EXCEPT ![i] =
                    [@ EXCEPT !.pc = "done", !.out = ConcOutput(procs[i]),
                              !.seq = 1 + Cardinality({j \in 1..2 : procs[j].pc = "done"})]]
    /\ ConcUnchanged

\* Process i replaces the store file by the store it read with its change
\* made, prints its message and exits with status 0.
ConcWrite(i) ==
    /\ procs[i].pc = "read"
    /\ store' = IF procs[i].op = "login"
                  THEN ConfSet(procs[i].snap, "apiKey", procs[i].key)
                  ELSE ConfDelete(procs[i].snap, "apiKey")
    /\ procs' = [procs EXCEPT ![i] =
                    [@ EXCEPT !.pc = "done", !.out = ConcOutput(procs[i]),
                              !.seq = 1 + Cardinality({j \in 1..2 : procs[j].pc = "done"})]]
    /\ ConcUnchanged

NextConc ==
    \/ \E i \in 1..2 : ConcRead(i)
    \/ \E i \in 1..2 : ConcWrite(i)

SpecConc == InitConc /\ [][NextConc]_vars

\* A command that needs the credential runs while the two other
\* invocations read and write the store.
NextRace ==
    \/ \E i \in 1..2 : ConcRead(i)
    \/ \E i \in 1..2 : ConcWrite(i)
    \/ \E c \in {"detect-unsafe", "analyze"} : PlainCommand(c)
    \/ (pc = "awaiting" /\ \E r \in Responses(cmd) : RemoteResolve(r))
    \/ RemoteReject

SpecRace == InitConc /\ [][NextRace]_vars

-----------------------------------------------------------------------------
(* The three builds in the source tree, installed side by side: each has   *)
(* its commands, its product name and its Conf project.                    *)

Builds == {"safenest 1.0.0", "tuteliq 1.1.0", "tuteliq 2.1.0"}

\* the name in the usage messages of a build
ProductName(b) == IF b = "safenest 1.0.0" THEN "safenest" ELSE "tuteliq"

\* builds that all keep their key in one project
ProjectName_Shared(b) == "tuteliq"

\* new Conf({ projectName }): the project whose store the build uses
ProjectName(b) == IF b = "safenest 1.0.0" THEN "safenest" ELSE "tuteliq"

\* The commands that a build registers: the detection commands in all,
\* account and breach from 1.1.0 on, the others in 2.1.0 only.
Registered(b) ==
    LET detection == {"detect-bullying", "detect-grooming", "detect-unsafe", "analyze",
                      "emotions", "action-plan"}
        account == {"account delete", "account export", "account consent-record",
                    "account consent-status", "account consent-withdraw",
                    "account audit-logs", "breach log", "breach list", "breach get",
                    "breach update"}
    IN CASE b = "safenest 1.0.0" -> LocalCmds \cup detection
         [] b = "tuteliq 1.1.0"  -> LocalCmds \cup detection \cup account
         [] b = "tuteliq 2.1.0"  -> LocalCmds \cup RemoteCmds

NotLoggedInOf(b) ==
    IF ProductName(b) = "tuteliq" THEN NotLoggedIn
    ELSE <<Line("Not logged in. Run: safenest login <api-key>", << >>)>>

NoRun == [cmd |-> "none", calls |-> << >>, stdout |-> << >>, stderr |-> << >>,
          exit |-> 0]

\* commander's answer to a command that the build does not register
UnknownCommand(c) ==
    [cmd |-> c, calls |-> << >>, stdout |-> << >>,
     stderr |-> <<Line("error: unknown command", <<c>>)>>, exit |-> 1]

\* The run of command c by build b with arguments a, store s and the
\* remote call resolving with r: the call it makes, what it prints, its status.
RunOf(b, c, a, s, r) ==
    IF c \notin Registered(b) THEN UnknownCommand(c)
    ELSE IF ~GetClient(s).ok
      THEN [cmd |-> c, calls |-> << >>, stdout |-> << >>,
            stderr |-> NotLoggedInOf(b), exit |-> 1]
    ELSE IF c = "account export"
      THEN [cmd |-> c, calls |-> <<Call(c, a, GetClient(s).key)>>,
            stdout |-> <<Line("JSON.stringify(result, null, 2)", Stringify(r.body, 0))>>,
            stderr |-> << >>, exit |-> 0]
      ELSE [cmd |-> c, calls |-> <<Call(c, a, GetClient(s).key)>>,
            stdout |-> RunSteps(FormatSteps(c), r, 1, << >>).out,
            stderr |-> IF RunSteps(FormatSteps(c), r, 1, << >>).thrown
                         THEN ErrorLine("TypeError") ELSE << >>,
            exit |-> IF RunSteps(FormatSteps(c), r, 1, << >>).thrown THEN 1 ELSE 0]

InitBuilds ==
    /\ store = EmptyStore
    /\ pc = "idle"
    /\ cmd = "none"
    /\ args = NoArgs
    /\ clientKey = << >>
    /\ remoteCalls = << >>
    /\ stdout = << >>
    /\ stderr = << >>
    /\ exitCode = 0
    /\ outcome = "none"
    /\ response = FullResponse
    /\ fileWritten = FALSE
    /\ fileContent = << >>
    /\ procs = NoProcs
    /\ lastCred = <<"none">>
    /\ overwrote = "nothing"
    /\ effects = << >>
    /\ installs = [stores |-> [p \in {ProjectName(b) : b \in Builds} |-> EmptyStore],
                   before |-> [p \in {ProjectName(b) : b \in Builds} |-> EmptyStore],
                   last |-> [build |-> "none", cmd |-> "none", key |-> << >>],
                   runs |-> [b \in Builds |-> NoRun]]

BuildsUnchanged ==
    UNCHANGED <<store, pc, cmd, args, clientKey, remoteCalls, stdout, stderr, exitCode,
                outcome, response, fileWritten, fileContent, procs, lastCred, overwrote,
                effects>>

\* login <api-key> in build b
BuildLogin(b, k) ==
    /\ installs' =
          [stores |-> [installs.stores EXCEPT ![ProjectName(b)] = ConfSet(@, "apiKey", k)],
           before |-> installs.stores,
           last |-> [build |-> b, cmd |-> "login", key |-> k],
           runs |-> [x \in Builds |->
                       IF x = b
                         THEN [cmd |-> "login", calls |-> << >>,
                               stdout |-> <<Line("API key saved successfully!", << >>),
                                            Line("Your key is stored locally at: config.path",
                                                 << >>)>>,
                               stderr |-> << >>, exit |-> 0]
                         ELSE NoRun]]
    /\ BuildsUnchanged

\* logout in build b
BuildLogout(b) ==
    /\ installs' =
          [stores |-> [installs.stores EXCEPT ![ProjectName(b)] = ConfDelete(@, "apiKey")],
           before |-> installs.stores,
           last |-> [build |-> b, cmd |-> "logout", key |-> << >>],
           runs |-> [x \in Builds |->
                       IF x = b
                         THEN [cmd |-> "logout", calls |-> << >>,
                               stdout |-> <<Line("Logged out successfully!", << >>)>>,
                               stderr |-> << >>, exit |-> 0]
                         ELSE NoRun]]
    /\ BuildsUnchanged

\* The same command, with the same arguments (confirmed, well-formed) and
\* the same response of the remote service, run by each build against the
\* store of its project.
BuildRun(c, r) ==
    /\ installs' =
          [stores |-> installs.stores,
           before |-> installs.stores,
           last |-> [build |-> "all", cmd |-> c, key |-> << >>],
           runs |-> [x \in Builds |->
                       RunOf(x, c, [NoArgs EXCEPT !.confirm = TRUE, !.file = SamplePath,
                                                  !.bytes = SampleBytes],
                             installs.stores[ProjectName(x)], r)]]
    /\ BuildsUnchanged

NextBuilds ==
    \/ \E b \in Builds, k \in {<< >>, Abc123, Key(8, 1)} : BuildLogin(b, k)
    \/ \E b \in Builds : BuildLogout(b)
    \/ \E c \in RemoteCmds : \E r \in Responses(c) : BuildRun(c, r)

SpecBuilds == InitBuilds /\ [][NextBuilds]_vars

----------------------------------------------------------------------------
(* Properties.                                                             *)

Exited == pc = "exited"

NoStoredCredential == "apiKey" \notin DOMAIN store

StoredKey == store["apiKey"]

\* The key named by the history variable after a login.
LastLoginKey == SubSeq(lastCred, 2, Len(lastCred))

LastWasLogin == lastCred[1] = "login"

LastWasLogout == lastCred = <<"logout">>

\* The run got as far as the credential check of its handler.
ReachesCredentialCheck == cmd \in RemoteCmds /\ ~(cmd = "account delete" /\ ~args.confirm)

\* C1 (as stated): with no stored credential, every command other than
\* login, logout and whoami, `account delete` without --confirm included,
\* exits with status 1 and performs no remote call.
C1_EveryAuthCommandExitsOne ==
    (cmd \in RemoteCmds /\ NoStoredCredential)
        => (Exited /\ exitCode = 1 /\ remoteCalls = << >>)

\* C1 (amended): with no stored credential, every command other than login,
\* logout and whoami performs no remote call; it prints the not-logged-in
\* error and exits with status 1, except `account delete` without --confirm,
\* which prints its warning and exits with status 0.
C1_NoCredentialNoNetwork ==
    (cmd \in RemoteCmds /\ NoStoredCredential)
        => /\ Exited
           /\ remoteCalls = << >>
           /\ clientKey = << >>
           /\ outcome = "none"
           /\ IF cmd = "account delete" /\ ~args.confirm
                THEN exitCode = 0 /\ stdout = DeleteWarning /\ stderr = << >>
                ELSE exitCode = 1 /\ stderr = NotLoggedIn /\ stdout = << >>

C1_Witness ==
    /\ cmd = "account delete" /\ args.confirm
    /\ NoStoredCredential /\ Exited
    /\ exitCode = 1 /\ stderr = NotLoggedIn /\ remoteCalls = << >>

\* C2: `account delete` without --confirm prints the warning, exits with
\* status 0 and never invokes deleteAccountData, with or without a stored
\* credential; deleteAccountData is invoked only with --confirm and a
\* credential.
C2_DeleteNeedsConfirm ==
    /\ (cmd = "account delete" /\ ~args.confirm)
          => (Exited /\ exitCode = 0 /\ stdout = DeleteWarning /\ remoteCalls = << >>)
    /\ \A i \in 1..Len(remoteCalls) :
          remoteCalls[i].op = "deleteAccountData"
             => /\ cmd = "account delete" /\ args.confirm
                /\ Truthy(ConfGet(store, "apiKey"))
                /\ remoteCalls[i].key = StoredKey

C2_Witness ==
    /\ cmd = "account delete" /\ ~args.confirm /\ Exited
    /\ Truthy(ConfGet(store, "apiKey"))
    /\ exitCode = 0 /\ remoteCalls = << >>

\* The local checks of a remote command: a credential, --confirm for
\* `account delete`, parseable JSON for detect-grooming, a readable file for
\* voice and image.
PassesLocalChecks ==
    /\ cmd \in RemoteCmds
    /\ Truthy(ConfGet(store, "apiKey"))
    /\ (cmd = "account delete" => args.confirm)
    /\ (cmd = "detect-grooming" => args.jsonOk)
    /\ (cmd \in FileCmds => args.fileOk)

\* C3: a run invokes at most one remote operation: exactly one for a remote
\* command that passes its local checks, none for login, logout and whoami.
C3_AtMostOneRemoteCall ==
    /\ Len(remoteCalls) <= 1
    /\ (cmd \in LocalCmds => remoteCalls = << >>)
    /\ (PassesLocalChecks =>
           (Len(remoteCalls) = 1 /\ remoteCalls[1].op = RemoteOp(cmd, args)))
    /\ ((cmd \in RemoteCmds /\ ~PassesLocalChecks) => remoteCalls = << >>)

C3_Witness ==
    /\ cmd = "pricing" /\ args.details /\ Exited /\ outcome = "resolved"
    /\ Len(remoteCalls) = 1 /\ remoteCalls[1].op = "getPricingDetails"

\* C4: when the remote call fails, the run prints the error message to the
\* error stream and no formatted result, exits with status 1, and has
\* invoked the remote operation once only.
C4_RemoteFailure ==
    outcome = "rejected"
        => /\ Exited
           /\ exitCode = 1
           /\ stderr = ErrorLine("error.message")
           /\ stdout = << >>
           /\ fileWritten = FALSE
           /\ Len(remoteCalls) = 1

C4_Witness ==
    /\ outcome = "rejected" /\ cmd = "account export" /\ args.output = "writable"
    /\ exitCode = 1 /\ Len(remoteCalls) = 1

\* The whole formatted result of command c for response r.
FullOutput(c, r) == RunSteps(FormatSteps(c), r, 1, << >>)

\* C5 (as stated): whenever the remote call succeeds, the result is
\* formatted and the run exits with status 0, also for a response that
\* lacks fields such as severity, dominant_emotions or steps.
C5_SuccessExitsZero ==
    outcome = "resolved" => (Exited /\ exitCode = 0 /\ stderr = << >>)

\* C6: malformed JSON given to detect-grooming -m ends the run with status 1
\* and detectGrooming is not invoked, with or without a stored credential.
C6_MalformedJson ==
    (cmd = "detect-grooming" /\ ~args.jsonOk)
        => /\ Exited
           /\ exitCode = 1
           /\ remoteCalls = << >>
           /\ outcome = "none"
           /\ stderr = IF Truthy(ConfGet(store, "apiKey"))
                         THEN ErrorLine("SyntaxError") ELSE NotLoggedIn

C6_Witness ==
    /\ cmd = "detect-grooming" /\ ~args.jsonOk /\ Exited
    /\ Truthy(ConfGet(store, "apiKey"))
    /\ exitCode = 1 /\ remoteCalls = << >> /\ stderr = ErrorLine("SyntaxError")

\* m is k masked: the first 8 characters of k (all of k when it is
\* shorter), three dots, the last 4 characters of k (all of k when it is
\* shorter).
IsMasked(m, k) ==
    LET h == Min(8, Len(k))
        t == Min(4, Len(k))
    IN /\ Len(m) = h + 3 + t
       /\ \A i \in 1..h : m[i] = k[i]
       /\ \A i \in 1..3 : m[h + i] = "."
       /\ \A i \in 1..t : m[h + 3 + i] = k[Len(k) - t + i]

WhoamiAfterLogin == LastWasLogin /\ cmd = "whoami" /\ Exited

\* What whoami printed says logged in, with the key k masked.
ReportsLoggedIn(k) ==
    /\ Len(stdout) = 2
    /\ stdout[1] = Line("Logged in", << >>)
    /\ stdout[2].text = "API Key: "
    /\ IsMasked(stdout[2].arg, k)
    /\ exitCode = 0

\* C7 (as stated): after `login k`, whoami reports logged in and prints
\* the first 8 characters of k, '...', and the last 4 characters of k.
C7_WhoamiAfterAnyLogin == WhoamiAfterLogin => ReportsLoggedIn(LastLoginKey)

\* C7 (amended): after `login k` with a non-empty k, whoami reports logged
\* in and prints the first 8 characters of k, '...', and the last 4
\* characters of k; for k = "abc123" it prints "abc123...c123".
C7_WhoamiMasksKey ==
    (WhoamiAfterLogin /\ LastLoginKey # << >>)
        => /\ ReportsLoggedIn(LastLoginKey)
           /\ (LastLoginKey = Abc123
                 => stdout[2].arg = <<"a", "b", "c", "1", "2", "3", ".", ".", ".",
                                      "c", "1", "2", "3">>)

C7_Witness ==
    /\ WhoamiAfterLogin /\ LastLoginKey = Abc123
    /\ stdout[1] = Line("Logged in", << >>)

C9_SingleKeyOverwritten ==
    /\ DOMAIN store \subseteq {"apiKey"}
    /\ LastWasLogin
          => /\ store = [x \in {"apiKey"} |-> LastLoginKey]
             /\ clientKey \in {<< >>, <<LastLoginKey>>}
             /\ \A i \in 1..Len(remoteCalls) : remoteCalls[i].key = LastLoginKey
             /\ (cmd = "whoami" /\ LastLoginKey # << >>)
                   => IsMasked(stdout[2].arg, LastLoginKey)

C9_Witness ==
    /\ LastWasLogin /\ overwrote = "other"
    /\ cmd = "detect-unsafe" /\ pc = "awaiting"
    /\ Len(remoteCalls) = 1 /\ remoteCalls[1].op = "detectUnsafe"
    /\ remoteCalls[1].key = LastLoginKey

\* C10: logout succeeds, with its success message and status 0, also when
\* no credential is stored, and then leaves the store as it was: absent.
C10_LogoutIdempotent ==
    [][cmd' = "logout"
         => /\ exitCode' = 0
            /\ stdout' = <<Line("Logged out successfully!", << >>)>>
            /\ stderr' = << >>
            /\ "apiKey" \notin DOMAIN store'
            /\ (cmd = "logout" => store' = store)
            /\ ("apiKey" \notin DOMAIN store => store' = store)]_vars

C10_Witness ==
    /\ cmd = "logout" /\ Exited /\ overwrote = "nothing"
    /\ exitCode = 0 /\ NoStoredCredential

\* The list commands, each with the list of its response and the message it
\* prints for an empty one.
ListCmds ==
    {"account consent-status", "account audit-logs", "breach list",
     "webhook list", "usage history"}

ListField(c) ==
    CASE c = "account consent-status" -> <<"consents">>
      [] c = "account audit-logs"     -> <<"audit_logs">>
      [] c = "breach list"            -> <<"breaches">>
      [] c = "webhook list"           -> <<"webhooks">>
      [] c = "usage history"          -> <<"days">>

NoneFound(c) ==
    CASE c = "account consent-status" -> "No consent records found."
      [] c = "account audit-logs"     -> "No audit logs found."
      [] c = "breach list"            -> "No breaches found."
      [] c = "webhook list"           -> "No webhooks configured."
      [] c = "usage history"          -> "No usage data available."

EmptyListReceived ==
    /\ Exited /\ cmd \in ListCmds /\ outcome = "resolved"
    /\ response.emptyLists /\ Present(response, ListField(cmd))

\* C20: the exit status is 0 or 1, and 1 exactly when the run reported an
\* error; a list command that receives an empty list prints its single
\* none-found message, no table, and exits with status 0.
C20_ExitStatus ==
    /\ exitCode \in {0, 1}
    /\ Exited => (exitCode = 0 <=> stderr = << >>)
    /\ EmptyListReceived
          => /\ stdout = <<Line(NoneFound(cmd), << >>)>>
             /\ stderr = << >>
             /\ exitCode = 0

C20_Witness ==
    /\ EmptyListReceived /\ cmd = "usage history"
    /\ stdout = <<Line("No usage data available.", << >>)>> /\ exitCode = 0

\* C17: every invocation exits with status 0 or 1 once its remote call, if
\* it made one, has returned or failed; nothing but the settling of the call
\* ends the wait, and nothing is printed while it lasts.
C17_EventuallyExits ==
    /\ [](pc \in {"idle", "awaiting", "exited"})
    /\ [](Exited => exitCode \in {0, 1})
    /\ (pc = "awaiting" ~> Exited)
    /\ [][pc = "awaiting" => (pc' = "exited" /\ outcome' \in {"resolved", "rejected"})]_vars
    /\ [](pc = "awaiting" => (stdout = << >> /\ stderr = << >> /\ outcome = "pending"))

C17_Witness ==
    /\ Exited /\ cmd = "detect-bullying" /\ outcome = "rejected"
    /\ exitCode = 1 /\ Len(remoteCalls) = 1

\* The style the documentation gives to a severity or risk value.
DocumentedStyle(colors, v) == IF v \in DOMAIN colors THEN colors[v] ELSE "white"

\* The result was formatted without failure and its line `label` shows the
\* value of field f in capitals, in its documented style, white when the
\* value is not one of the documented ones or is absent.
ShowsLevel(label, colors, f) ==
    /\ exitCode = 0
    /\ \E i \in 1..Len(stdout) :
          /\ stdout[i].text = label
          /\ IF Present(response, f)
               THEN stdout[i].arg = <<DocumentedStyle(colors, response.level)>>
                                       \o ToUpperCase(response.level)
               ELSE stdout[i].arg # << >> /\ stdout[i].arg[1] = "white"

\* C12: formatSeverity and formatRisk show a documented level in its colour
\* and any other value, an absent one included, in white, without failing.
C12_NeutralFallback ==
    /\ (outcome = "resolved" /\ cmd \in {"detect-bullying", "detect-unsafe"}
          /\ response.missing \subseteq {<<"severity">>})
          => ShowsLevel("Severity:", SeverityColors, <<"severity">>)
    /\ (outcome = "resolved" /\ cmd = "detect-grooming"
          /\ response.missing \subseteq {<<"grooming_risk">>})
          => ShowsLevel("Risk Level:", RiskColors, <<"grooming_risk">>)

Lines(label) == {i \in 1..Len(stdout) : stdout[i].text = label}

\* Exactly one line `label` is printed, the positive one when the flag is
\* true and the negative one when it is false or absent.
OneBanner(label, positive, negative) ==
    /\ Cardinality(Lines(label)) = 1
    /\ \A i \in Lines(label) :
          stdout[i].arg = IF response.flag = "true" THEN positive ELSE negative

\* The part of a voice or image result that line l reports on.
SubResult(c, l) ==
    <<IF c = "voice" THEN "analysis" ELSE "text_analysis",
      IF l = "Bullying:" THEN "bullying" ELSE "unsafe">>

\* C14: the detection flag alone selects the banner of detect-bullying and
\* detect-unsafe and the Bullying/Unsafe lines of voice and image, whatever
\* else the response holds; one banner is printed per result.
C14_FlagSelectsBanner ==
    outcome = "resolved" =>
       /\ cmd = "detect-bullying"
             => OneBanner("banner: bullying", <<"red.bold", "BULLYING DETECTED">>,
                          <<"green.bold", "No bullying detected">>)
       /\ cmd = "detect-unsafe"
             => OneBanner("banner: unsafe", <<"red.bold", "UNSAFE CONTENT DETECTED">>,
                          <<"green.bold", "Content is safe">>)
       /\ (cmd \in {"voice", "image"} /\ exitCode = 0)
             => \A l \in {"Bullying:", "Unsafe:"} :
                   IF Present(response, SubResult(cmd, l))
                     THEN OneBanner(l, <<"red", "DETECTED">>, <<"green", "Clear">>)
                     ELSE Lines(l) = {}

C14_Witness ==
    /\ outcome = "resolved" /\ cmd = "detect-unsafe" /\ response.flag = "absent"
    /\ response.missing = {<<"severity">>} /\ exitCode = 1
    /\ stdout[2] = Line("banner: unsafe", <<"green.bold", "Content is safe">>)

\* The lines that show a list, each with the field it shows.
ListLines ==
    {<<"detect-bullying", "Types:", <<"bullying_type">>>>,
     <<"detect-unsafe", "Categories:", <<"categories">>>>,
     <<"emotions", "Dominant:", <<"dominant_emotions">>>>,
     <<"breach get", "Affected Users:", <<"breach", "affected_user_ids">>>>,
     <<"breach get", "Data Categories:", <<"breach", "data_categories">>>>}

ListValue(a) == IF a # << >> /\ a[1] = "cyan" THEN Tail(a) ELSE a

\* C15: a list of the result is shown joined with ", " when it has elements,
\* and its line is left out when the list is empty or absent (for results
\* whose severity is a documented one).
C15_ListsJoinedOrOmitted ==
    \A l \in ListLines :
       (outcome = "resolved" /\ cmd = l[1] /\ response.missing \subseteq {l[3]}
          /\ response.level \in DOMAIN SeverityColors)
          => IF Present(response, l[3]) /\ ~response.emptyLists
               THEN /\ Cardinality(Lines(l[2])) = 1
                    /\ \A i \in Lines(l[2]) : ListValue(stdout[i].arg) = Join(response.items)
               ELSE Lines(l[2]) = {} /\ exitCode = 0

\* C19: the childAge of the request of detect-grooming, action-plan and
\* voice is absent when -a is not given, and an integer when it is given,
\* whatever its value.
C19_ChildAgeInteger ==
    (cmd \in AgeCmds /\ outcome # "none")
       => /\ Len(remoteCalls) = 1
          /\ remoteCalls[1].childAge.kind =
                IF args.age.defined THEN "number" ELSE "undefined"

\* The command each alias stands for, as documented.
FullCommand(n) ==
    CASE n = "bullying" -> "detect-bullying"
      [] n = "unsafe"   -> "detect-unsafe"
      [] n = "grooming" -> "detect-grooming"
      [] n = "plan"     -> "action-plan"

\* The run is what a run of command c with the same arguments, store and
\* response is.
RunsAs(c) ==
    /\ cmd = c
    /\ IF NoStoredCredential
         THEN remoteCalls = << >> /\ Exited /\ stderr = NotLoggedIn /\ exitCode = 1
         ELSE remoteCalls = <<Call(c, args, StoredKey)>>
    /\ outcome = "resolved"
          => /\ stdout = FullOutput(c, response).out
             /\ exitCode = IF FullOutput(c, response).thrown THEN 1 ELSE 0
    /\ outcome = "rejected" => (stdout = << >> /\ exitCode = 1)

\* C18: a run started by an alias invokes the remote operation, sends the
\* request, prints the output and exits with the status of the full command.
C18_AliasEquivalent ==
    args.name \in {"bullying", "unsafe", "grooming", "plan"} => RunsAs(FullCommand(args.name))

C18_Witness ==
    /\ args.name = "plan" /\ args.age = Given(<<"1", "2">>) /\ outcome = "resolved"
    /\ Len(remoteCalls) = 1 /\ remoteCalls[1].op = "getActionPlan"
    /\ remoteCalls[1].key = Abc123 /\ remoteCalls[1].childAge = Number(12)
    /\ exitCode = 0

\* The JSON text of a value without any white space.
RECURSIVE Compact(_)
RECURSIVE CompactKids(_, _)
Compact(v) ==
    CASE v.type = "string"  -> <<"\"", v.text, "\"">>
      [] v.type = "literal" -> <<v.text>>
      [] v.type = "array"   -> <<"[">> \o CompactKids(v, 1) \o <<"]">>
      [] v.type = "object"  -> <<"{">> \o CompactKids(v, 1) \o <<"}">>

CompactKids(v, i) ==
    IF i > Len(v.kids) THEN << >>
    ELSE (IF v.type = "object" THEN <<"\"", v.kids[i].key, "\"", ":">> ELSE << >>)
           \o Compact(v.kids[i].value)
           \o (IF i < Len(v.kids) THEN <<",">> ELSE << >>)
           \o CompactKids(v, i + 1)

\* A JSON text with its white space removed.
RECURSIVE Strip(_)
Strip(t) ==
    IF t = << >> THEN << >>
    ELSE (CASE t[1] \in {"\n", "  "} -> << >>
            [] t[1] = ": "           -> <<":">>
            [] t[1] = "[]"           -> <<"[", "]">>
            [] t[1] = "{}"           -> <<"{", "}">>
            [] OTHER                 -> <<t[1]>>) \o Strip(Tail(t))

\* Every element of an array or object with elements starts a line of its own.
OnePerLine(t) ==
    \A i \in 1..Len(t) :
       (t[i] \in {"[", "{", ","} => t[i + 1] = "\n")
       /\ (t[i] \in {"]", "}"} => t[i - 1] \in {"\n", "  "})

IsPrettyJsonOf(t, v) == Strip(t) = Compact(v) /\ OnePerLine(t)

ExportSucceeded == cmd = "account export" /\ outcome = "resolved"

\* C11: after a successful call, `account export -o <file>` (the file being
\* writable) leaves in the file the pretty-printed JSON of the response and
\* prints the confirmation line only; without -o it prints that JSON and
\* writes no file.
C11_ExportWritesJson ==
    /\ (ExportSucceeded /\ args.output = "writable")
          => /\ fileWritten /\ IsPrettyJsonOf(fileContent, response.body)
             /\ stdout = <<Line("Data exported to ", <<"options.output">>)>>
             /\ stderr = << >> /\ exitCode = 0
    /\ (ExportSucceeded /\ args.output = "none")
          => /\ ~fileWritten /\ fileContent = << >>
             /\ Len(stdout) = 1 /\ IsPrettyJsonOf(stdout[1].arg, response.body)
             /\ stderr = << >> /\ exitCode = 0
    /\ fileWritten => (ExportSucceeded /\ args.output = "writable")

C11_Witness ==
    /\ ExportSucceeded /\ args.output = "writable" /\ response.body = AccountData
    /\ fileWritten /\ Len(fileContent) > Len(Compact(AccountData))
    /\ Len(stdout) = 1

\* The run printed the confidence and the risk of a response that gives
\* both as d / Scale.
ScoresPrinted ==
    /\ cmd = "detect-bullying" /\ outcome = "resolved" /\ response.score.defined
    /\ exitCode = 0

HalfUp(d) == (100 * d + Scale \div 2) \div Scale

\* p is a whole percentage nearest to d / Scale.
Nearest(p, d) ==
    /\ 2 * (p * Scale - 100 * d) <= Scale
    /\ 2 * (100 * d - p * Scale) <= Scale

IsHalf(d) == 2 * ((100 * d) % Scale) = Scale

ScoreLines == Lines("Confidence:") \cup Lines("Risk Score:")

\* C13 (as stated): the percentage printed for r is r * 100 rounded to the
\* nearest whole number, halves rounded up.
C13_RoundHalfUp ==
    ScoresPrinted =>
       \A i \in ScoreLines :
          stdout[i].arg = <<"cyan", ToString(HalfUp(response.score.value)), "%">>

\* C13 (amended): the percentage printed for r is a whole number nearest to
\* r * 100, and it is the one rounded half up unless r * 100 lies exactly
\* half way between two whole numbers.
C13_NearestPercent ==
    ScoresPrinted =>
       /\ Cardinality(ScoreLines) = 2
       /\ \A i \in ScoreLines :
             \E p \in 0..100 :
                /\ stdout[i].arg = <<"cyan", ToString(p), "%">>
                /\ Nearest(p, response.score.value)
                /\ ~IsHalf(response.score.value) => p = HalfUp(response.score.value)

C13_Witness ==
    /\ ScoresPrinted /\ 200 * response.score.value = 29 * Scale
    /\ \A i \in ScoreLines : stdout[i].arg = <<"cyan", "14", "%">>
    /\ ScoreLines # {}

\* The store that the write of process p alone results in.
Effect(p) == IF p.op = "login" THEN [x \in {"apiKey"} |-> p.key] ELSE EmptyStore

HaveWritten == {i \in DOMAIN procs : procs[i].seq > 0}

LastWriter == CHOOSE i \in HaveWritten : \A j \in HaveWritten : procs[j].seq <= procs[i].seq

C21_OnlyLoginLogoutWrite ==
    [][store' # store => (cmd' \in {"login", "logout"} /\ pc' = "exited"
                            /\ lastCred' # lastCred)]_vars

C21_Witness ==
    /\ Exited /\ cmd = "webhook delete" /\ outcome = "rejected" /\ exitCode = 1
    /\ LastWasLogin /\ store = [x \in {"apiKey"} |-> LastLoginKey]

\* The run consulted the credential and went on with the key k.
UsesKey(k) ==
    /\ clientKey = <<k>>
    /\ PassesLocalChecks => (Len(remoteCalls) = 1 /\ remoteCalls[1].key = k)

\* The run was stopped by the credential check.
StoppedNotLoggedIn ==
    /\ Exited /\ exitCode = 1
    /\ stderr = NotLoggedIn
    /\ clientKey = << >> /\ remoteCalls = << >>

Contains(m, s) ==
    \E i \in 0..(Len(m) - Len(s)) : SubSeq(m, i + 1, i + Len(s)) = s

\* Where the '...' of a masked key starts.
DotsAt(m) == CHOOSE i \in 1..Len(m) : m[i] = "." /\ \A j \in 1..(i - 1) : m[j] # "."

PrintedPrefix(m) == SubSeq(m, 1, DotsAt(m) - 1)

PrintedSuffix(m) == SubSeq(m, DotsAt(m) + Len(Dots), Len(m))

\* whoami ran with a stored key that counts as present.
WhoamiWithKey ==
    cmd = "whoami" /\ Exited /\ Truthy(ConfGet(store, "apiKey"))

\* C23: whoami never discloses the complete stored key: what it prints does
\* not contain the key as a contiguous substring, and the printed prefix and
\* suffix together are shorter than the key, so that they neither overlap nor
\* cover it.
C23_KeyNeverDisclosed ==
    WhoamiWithKey
        => \A i \in 1..Len(stdout) :
              /\ ~Contains(stdout[i].arg, StoredKey)
              /\ (stdout[i].text = "API Key: "
                    => Len(PrintedPrefix(stdout[i].arg)) + Len(PrintedSuffix(stdout[i].arg))
                          < Len(StoredKey))

\* The risk levels that formatRisk renders in the green of a safe result.
SafeGreen == {v \in DOMAIN RiskColors : RiskColors[v] = "green"}

RiskyLevels == {LowLevel, MediumLevel, HighLevel, CriticalLevel}

\* The banners that report on a risk level: command, line, field, and the
\* negative text.
RiskBanners ==
    {<<"detect-grooming", "banner: grooming", <<"grooming_risk">>,
       <<"green.bold", "No grooming detected">>>>,
     <<"analyze", "banner: analyze", <<"risk_level">>,
       <<"green.bold", "Content appears safe">>>>,
     <<"voice", "Grooming:", <<"analysis", "grooming">>, <<"green", "Clear">>>>}

\* C24: the banner and the risk colour agree: for a level that formatRisk
\* renders in safe green ('none' or 'safe') the negative banner is printed,
\* and a positive banner is printed only for low, medium, high or critical.
C24_BannerAgreesWithColor ==
    \A b \in RiskBanners :
        (outcome = "resolved" /\ cmd = b[1] /\ Present(response, b[3]))
            => \A i \in Lines(b[2]) :
                  /\ response.level \in SafeGreen => stdout[i].arg = b[4]
                  /\ stdout[i].arg # b[4] => response.level \in RiskyLevels

\* The run's first step was the credential check, and with no credential
\* it was its only step: the not-logged-in error, exit 1, nothing parsed,
\* no file touched, no call.
CheckedCredentialFirst ==
    /\ effects # << >> /\ effects[1] = "config.get"
    /\ ~Truthy(ConfGet(store, "apiKey"))
          => (StoppedNotLoggedIn /\ effects = <<"config.get">>)

\* C25 (as stated): in every command that needs the credential the check is
\* the first step of the action, before the JSON is parsed, the file is read
\* or the call is made; with no credential the run reports not-logged-in and
\* exits 1, never an argument error.
C25_CredentialCheckFirstAlways == cmd \in RemoteCmds => CheckedCredentialFirst

\* C25 (amended): the same for every command that needs the credential except
\* `account delete` without --confirm, whose confirmation guard comes first.
C25_CredentialCheckFirst ==
    /\ (cmd \in RemoteCmds /\ ReachesCredentialCheck) => CheckedCredentialFirst
    /\ (cmd = "account delete" /\ ~args.confirm)
          => (effects = << >> /\ Exited /\ exitCode = 0 /\ stdout = DeleteWarning)

C25_Witness ==
    /\ cmd = "detect-grooming" /\ ~args.jsonOk /\ NoStoredCredential
    /\ StoppedNotLoggedIn /\ effects = <<"config.get">>

\* How often the run did step s.
Count(s) == Cardinality({i \in 1..Len(effects) : effects[i] = s})

\* n is the last component of path p: it holds no separator and p ends
\* with it, right after a separator or as the whole path.
IsBaseNameOf(n, p) ==
    /\ n # << >> /\ \A i \in 1..Len(n) : n[i] # "/"
    /\ Len(n) <= Len(p) /\ SubSeq(p, Len(p) - Len(n) + 1, Len(p)) = n
    /\ (Len(n) < Len(p) => p[Len(p) - Len(n)] = "/")

\* C26: voice and image with a stored credential: when the file cannot be
\* read the run prints the error to the error stream and exits 1 without an
\* upload call; when it can, exactly one upload call is made, carrying the
\* bytes of the file and the base name of its path as the file name.
C26_UploadCarriesFile ==
    (cmd \in FileCmds /\ Truthy(ConfGet(store, "apiKey")))
        => IF ~args.fileOk
             THEN /\ Exited /\ exitCode = 1
                  /\ stderr = ErrorLine("ENOENT") /\ stdout = << >>
                  /\ remoteCalls = << >> /\ Count("call") = 0
             ELSE /\ Len(remoteCalls) = 1 /\ Count("call") = 1
                  /\ remoteCalls[1].op = (IF cmd = "voice" THEN "analyzeVoice"
                                                           ELSE "analyzeImage")
                  /\ remoteCalls[1].file = Given(args.bytes)
                  /\ remoteCalls[1].filename.defined
                  /\ IsBaseNameOf(remoteCalls[1].filename.value, args.file)

C26_Witness ==
    /\ cmd = "image" /\ outcome = "resolved" /\ exitCode = 0
    /\ args.file = <<"/", "a", "/", "b", "/", "c">>
    /\ remoteCalls[1].filename = Given(<<"c">>)
    /\ remoteCalls[1].file = Given(<<"ff", "d8", "ff">>)

\* C29: webhook update sends isActive = true for --enable, isActive = false
\* for --disable and leaves it unset for neither; the flags are never both
\* honoured, and with --disable the request never activates the webhook.
C29_DisableNeverActivates ==
    (cmd = "webhook update" /\ remoteCalls # << >>)
        => /\ Len(remoteCalls) = 1
           /\ args.disable => remoteCalls[1].isActive = "false"
           /\ (args.enable /\ ~args.disable) => remoteCalls[1].isActive = "true"
           /\ (~args.enable /\ ~args.disable) => remoteCalls[1].isActive = "undefined"

\* The run has not touched the export file.
FileUntouched == ~fileWritten /\ fileContent = << >> /\ Count("fs.writeFileSync") = 0

\* C27: `account export -o <file>` touches <file> only after the export call
\* has succeeded: with no credential, or when the call fails, the file is
\* left as it was and the run exits with status 1.
C27_FileWrittenAfterSuccess ==
    (cmd = "account export" /\ args.output # "none")
        => /\ ~FileUntouched
                => /\ outcome = "resolved"
                   /\ effects = <<"config.get", "call", "fs.writeFileSync">>
           /\ pc = "awaiting" => FileUntouched
           /\ (~Truthy(ConfGet(store, "apiKey")) \/ outcome = "rejected")
                => (Exited /\ exitCode = 1 /\ FileUntouched /\ stdout = << >>)

C27_Witness ==
    /\ cmd = "account export" /\ args.output = "writable"
    /\ outcome = "rejected" /\ Exited /\ FileUntouched
    /\ effects = <<"config.get", "call">>

\* The step starts a run that gets as far as its remote call.
StartsCall == pc # "awaiting" /\ pc' = "awaiting"

\* The step is taken while the call is outstanding and ends the run.
SettlesCall == pc = "awaiting" /\ pc' = "exited"

\* C28: a command reads the credential once, before its call, and makes the
\* call with the key it read; while the call is outstanding a login or logout
\* by another invocation changes neither that key nor what the run prints and
\* returns, and the command does not read the store again or write it.
C28_KeyReadOnce ==
    [][/\ StartsCall
            => /\ effects' = <<"config.get", "call">>
               /\ clientKey' = <<store["apiKey"]>>
               /\ Len(remoteCalls') = 1 /\ remoteCalls'[1].key = store["apiKey"]
               /\ store' = store
       /\ pc = "awaiting"
            => /\ clientKey' = clientKey /\ remoteCalls' = remoteCalls
               /\ effects' = effects
       /\ SettlesCall
            => /\ store' = store
               /\ outcome' = "resolved"
                    => /\ stdout' = FullOutput(cmd, response').out
                       /\ stderr' = IF FullOutput(cmd, response').thrown
                                      THEN ErrorLine("TypeError") ELSE << >>
                       /\ exitCode' = IF FullOutput(cmd, response').thrown THEN 1 ELSE 0
               /\ outcome' = "rejected"
                    => (stdout' = stdout /\ stderr' = ErrorLine("error.message")
                          /\ exitCode' = 1)]_vars

\* A run resolved normally although another invocation had logged out while
\* its call was outstanding.
C28_Witness ==
    /\ cmd = "detect-unsafe" /\ outcome = "resolved" /\ exitCode = 0
    /\ remoteCalls # << >> /\ remoteCalls[1].key = Abc123
    /\ NoStoredCredential
    /\ effects = <<"config.get", "call">>

\* The store that build b reads and writes, now and before the last step.
StoreOf(b) == installs.stores[ProjectName(b)]

BeforeOf(b) == installs.before[ProjectName(b)]

\* The run of build b with the product name taken out of its messages.
Unbranded(b) ==
    [installs.runs[b] EXCEPT
        !.stderr = IF @ = NotLoggedInOf(b) THEN <<"not logged in">> ELSE @]

\* The last step ran one command in every build.
RanInAll == installs # << >> /\ installs.last.build = "all"

\* Build b offers the command that was run.
Offered(b) == installs.runs[b] # UnknownCommand(installs.last.cmd)

\* The last step was a login in one build.
LoggedInOne == installs # << >> /\ installs.last.cmd = "login"

\* C30 (as stated): the three builds offer the same commands; every command,
\* given the same arguments, stored key and response, makes the same call and
\* yields the same output and status in each, up to the product name; and a
\* key saved by login in one build is the credential that the others see.
C30_SameTool ==
    \A b1 \in Builds, b2 \in Builds :
        /\ RanInAll => Offered(b1)
        /\ (RanInAll /\ ConfGet(StoreOf(b1), "apiKey") = ConfGet(StoreOf(b2), "apiKey"))
              => Unbranded(b1) = Unbranded(b2)
        /\ LoggedInOne => ConfGet(StoreOf(b1), "apiKey") = Given(installs.last.key)

\* C30 (amended): each build offers the commands of the one before it and
\* more; a command that two builds both offer, given the same arguments,
\* stored key and response, makes the same call and yields the same output
\* and status in both, up to the product name, and a build that does not
\* offer it makes no call and exits 1; a key saved by login in a build is
\* seen by the builds of the same product name and leaves the store of the
\* other product as it was.
C30_SameCommonCommands ==
    /\ (RanInAll /\ Offered("safenest 1.0.0")) => Offered("tuteliq 1.1.0")
    /\ (RanInAll /\ Offered("tuteliq 1.1.0")) => Offered("tuteliq 2.1.0")
    /\ \A b1 \in Builds, b2 \in Builds :
        /\ (RanInAll /\ Offered(b1) /\ Offered(b2)
              /\ ConfGet(StoreOf(b1), "apiKey") = ConfGet(StoreOf(b2), "apiKey"))
              => Unbranded(b1) = Unbranded(b2)
        /\ (RanInAll /\ ~Offered(b1))
              => (installs.runs[b1].calls = << >> /\ installs.runs[b1].exit = 1)
        /\ (LoggedInOne /\ installs.last.build = b1)
              => IF ProductName(b2) = ProductName(b1)
                   THEN ConfGet(StoreOf(b2), "apiKey") = Given(installs.last.key)
                   ELSE StoreOf(b2) = BeforeOf(b2)

C30_Witness ==
    /\ RanInAll /\ installs.last.cmd = "detect-unsafe"
    /\ \A b \in Builds :
          /\ installs.runs[b].exit = 0
          /\ Len(installs.runs[b].calls) = 1
          /\ installs.runs[b].calls[1].key = Abc123
          /\ installs.runs[b].calls[1].op = "detectUnsafe"

====
